---- MODULE Spec2Model ----
(***************************************************************************)
(* Verification model of pythia-rs: the pipeline / worker model            *)
(* (processing/pipeline, processing/processor), the context generator      *)
(* (processing/context/gen.rs), the registry core (registry/mod.rs,        *)
(* utils/threehashmap.rs) and the seeded configuration loader              *)
(* (registry/identifier.rs, config/sites.rs).                              *)
(***************************************************************************)
EXTENDS Integers, Sequences, FiniteSets, TLC

(***************************************************************************)
(* Bounds of the model.                                                    *)
(***************************************************************************)
MaxItems == 3
MaxWorkers == 2
MaxBuf == 1
MaxFairItems == 2
MaxSites == 2
MaxRuns == 2
MaxCap == 5
MaxNoneCalls == 2
MaxOps == 4
MaxRunDocs == 2
MaxTplLen == 5
MaxDepth == 4
MaxFeatures == 3
MaxBand == 3
MaxBlock == 2
MaxPlaces == 6
MaxInserts == 3
MaxFlightItems == 5
MaxEntries == 3

None == <<>>

\* Site ids and run names the pipeline inputs are drawn from.
SiteIds == {0, 1}
RunNames == {"r1", "r2"}

\* A Context is the pair (site.id, run.name).
Contexts == {<<0, "r1">>, <<1, "r2">>}

RECURSIVE SeqsUpTo(_, _)
SeqsUpTo(S, n) ==
    IF n = 0 THEN {<<>>}
    ELSE LET shorter == SeqsUpTo(S, n - 1)
         IN  shorter \cup {Append(s, x) : s \in {t \in shorter : Len(t) = n - 1}, x \in S}

\* The multiset of the elements of a sequence, as a function element -> count.
CountIn(s, x) == Cardinality({i \in 1..Len(s) : s[i] = x})
BagOfSeq(s) == [x \in {s[i] : i \in 1..Len(s)} |-> CountIn(s, x)]

IsPrefix(p, s) == Len(p) <= Len(s) /\ SubSeq(s, 1, Len(p)) = p

VARIABLES
    \* ---- pipeline ----
    prodItems,      \* the contexts the producer is going to send, in order
    prodIdx,        \* how many of them it has sent
    txInClosed,     \* the producer dropped tx_in
    chIn,           \* bounded channel producer -> workers
    chOut,          \* bounded channel workers -> sink
    bufSize,        \* pipeline_buffer_size
    workers,        \* worker count of the pipeline (1 = SyncPipeline)
    filenames,      \* TemplateEngine.filenames: run names with a registered template
    wpc,            \* position of each worker inside UnbatchedProcessor::process
    wctx,           \* the context a worker holds
    wdirerr,        \* create_dir_all failed (and was logged) for the held context
    conductPc,      \* position of Pipeline::conduct
    spawned,        \* worker threads spawned so far
    joined,         \* worker threads joined so far
    txOutClosed,    \* the pipeline side dropped tx_out
    sinkPc,         \* position of the sink
    received,       \* what the sink has received, in order
    \* ---- context generator ----
    sites,              \* what site_generator yields, in order
    runs,               \* ContextGenerator.runs (run names)
    site_sample_size,   \* Option<usize>: <<>> is None, <<n>> is Some(n)
    sitePos,            \* how many sites site_generator has yielded
    curr_site,          \* Option<Site>: <<>> is None, <<id>> is Some
    current_site_count,
    current_run,
    emitted,            \* the contexts next() has returned so far
    lastNext,           \* what the last call of next() returned
    noneCount,          \* how many calls of next() returned None
    \* ---- registries ----
    namespaces,     \* Registries.namespaces: the claimed namespace names
    regMap,         \* Registries.reg_sitegen_drivers.map (a K2HashMap)
    ret,            \* the last registry call and what it returned
    opCount,        \* number of registry calls made
    claimLog,       \* per name: the results of its claim_namespace calls, in order
    regLog,         \* per (namespace, id): the results of its register calls, in order
    \* ---- configuration loader ----
    cfgPhase,       \* "new", "booted" (init_itself done), "decoded", "resolved"
    cfgDoc,         \* the `sites` object of the configuration document
    decoded,        \* what decoding the `sites` object returned
    sitesRet,       \* what Config::sites returned
    \* ---- config::init ----
    initPc,         \* "new", "parsed" (Args::parse done), "returned"
    initArgs,       \* the Args: workdir (Option), clear_workdir, config_file
    initFs,         \* what the file system holds at the paths init looks at
    initDoc,        \* the configuration document: `sites` and `runs`
    initRet,        \* what init returned, with what each validation said
    \* ---- template strings ----
    tplPc,          \* "new", "decoded", "serialized"
    tplSrc,         \* the JSON value being decoded
    tplValue,       \* what decoding returned
    tplOut,         \* Option: what serializing the decoded value wrote
    \* ---- interpolation ----
    ipExtra,        \* Context.run.extra: key -> ContextValue
    ipRoot,         \* Option: the key of run.extra whose to_prim is being computed
    ipStack,        \* the active calls of TemplateString::interpolate, innermost last
    ipRet,          \* what to_prim returned
    \* ---- context access ----
    ctxExtra,       \* Context.run.extra of the context that is asked
    ctxCall,        \* Option: the call made, Context::get(key) or Context::tera()
    ctxRet,         \* what the call returned
    \* ---- pipeline selection ----
    selArgs,        \* Option: the call made, with workers and the number of logical CPUs
    selRet,         \* Option: what the call returned
    \* ---- vector site generator ----
    vecDs,          \* Option: the layers of the dataset, each the sequence of its features
    vecGen,         \* Option: the fields of the VectorSiteGenerator
    vecOut,         \* what the calls of next() returned, in order
    \* ---- raster site generator ----
    rasBand,        \* Option: the band, its block size and its pixels
    rasGen,         \* Option: the fields of the RasterSiteGenerator
    rasOut,         \* what the calls of next() returned, in order
    \* ---- GeoDeg ----
    geoCall,        \* Option: the call made, the f64 input (in millionths of a degree) and the places
    geoRet,         \* Option: what ns(places) and ew(places) returned
    \* ---- output paths ----
    workdir,        \* Option: UnbatchedProcessor.workdir, a path as the sequence of its components
    siteGeo,        \* Option: per site id, Site.lon and Site.lat (GeoDeg)
    tplFiles,       \* Option: per run name, the template file given to TemplateEngine::register
    \* ---- K2HashMap ----
    k2Map,          \* Option: the K2HashMap
    k2Log           \* the inserts made, in order, each <<k1, k2, v>>

pipeVars == <<prodItems, prodIdx, txInClosed, chIn, chOut, bufSize, workers,
              filenames, wpc, wctx, wdirerr, conductPc, spawned, joined,
              txOutClosed, sinkPc, received>>

genVars == <<sites, runs, site_sample_size, sitePos, curr_site, current_site_count,
             current_run, emitted, lastNext, noneCount>>

regVars == <<namespaces, regMap, ret, opCount, claimLog, regLog>>

cfgVars == <<cfgPhase, cfgDoc, decoded, sitesRet>>

valVars == <<initPc, initArgs, initFs, initDoc, initRet>>

tplVars == <<tplPc, tplSrc, tplValue, tplOut>>

ipVars == <<ipExtra, ipRoot, ipStack, ipRet>>

ctxVars == <<ctxExtra, ctxCall, ctxRet>>

selVars == <<selArgs, selRet>>

vecVars == <<vecDs, vecGen, vecOut>>

rasVars == <<rasBand, rasGen, rasOut>>

geoVars == <<geoCall, geoRet>>

writeVars == <<workdir, siteGeo, tplFiles>>

k2Vars == <<k2Map, k2Log>>

lateVars == <<ctxVars, selVars, vecVars, rasVars, geoVars, writeVars, k2Vars>>

extVars == <<valVars, tplVars, ipVars, lateVars>>

vars == <<pipeVars, genVars, regVars, cfgVars, extVars>>

nonPipeVars == <<genVars, regVars, cfgVars, extVars>>
nonGenVars == <<pipeVars, regVars, cfgVars, extVars>>
nonRegVars == <<pipeVars, genVars, cfgVars, extVars>>
nonExtVars == <<pipeVars, genVars, regVars, cfgVars>>
nonValVars == <<tplVars, ipVars, lateVars>>
nonTplVars == <<valVars, ipVars, lateVars>>
nonIpVars == <<valVars, tplVars, lateVars>>
midVars == <<genVars, regVars, cfgVars, valVars, tplVars, ipVars>>
earlyVars == <<pipeVars, midVars>>
nonCtxVars == <<earlyVars, selVars, vecVars, rasVars, geoVars, writeVars, k2Vars>>
nonSelVars == <<earlyVars, ctxVars, vecVars, rasVars, geoVars, writeVars, k2Vars>>
nonVecVars == <<earlyVars, ctxVars, selVars, rasVars, geoVars, writeVars, k2Vars>>
nonRasVars == <<earlyVars, ctxVars, selVars, vecVars, geoVars, writeVars, k2Vars>>
nonGeoVars == <<earlyVars, ctxVars, selVars, vecVars, rasVars, writeVars, k2Vars>>
nonWriteVars == <<earlyVars, ctxVars, selVars, vecVars, rasVars, geoVars, k2Vars>>
nonK2Vars == <<earlyVars, ctxVars, selVars, vecVars, rasVars, geoVars, writeVars>>
nonPipeSelVars == <<midVars, ctxVars, vecVars, rasVars, geoVars, writeVars, k2Vars>>

Workers == 1..MaxWorkers

(***************************************************************************)
(* Pipeline selection: workers = 1 selects the sync pipeline.              *)
(***************************************************************************)
IsSync == workers = 1

PipeInit ==
    /\ prodItems \in SeqsUpTo(Contexts, MaxItems)
    /\ prodIdx = 0
    /\ txInClosed = FALSE
    /\ chIn = <<>>
    /\ chOut = <<>>
    /\ bufSize \in 1..MaxBuf
    /\ workers \in 1..MaxWorkers
    /\ filenames \in {RunNames, {"r1"}}
    /\ wpc = [w \in Workers |-> "unspawned"]
    /\ wctx = [w \in Workers |-> None]
    /\ wdirerr = [w \in Workers |-> FALSE]
    /\ conductPc = "idle"
    /\ spawned = 0
    /\ joined = 0
    /\ txOutClosed = FALSE
    /\ sinkPc = "draining"
    /\ received = <<>>

(***************************************************************************)
(* Producer (the surrounding driver): sends the generator's contexts into  *)
(* the bounded input channel, then drops tx_in.                            *)
(***************************************************************************)
ProducerSend ==
    /\ prodIdx < Len(prodItems)
    /\ Len(chIn) < bufSize
    /\ chIn' = Append(chIn, prodItems[prodIdx + 1])
    /\ prodIdx' = prodIdx + 1
    /\ UNCHANGED nonPipeVars
    /\ UNCHANGED <<prodItems, txInClosed, chOut, bufSize, workers, filenames, wpc,
                   wctx, wdirerr, conductPc, spawned, joined, txOutClosed, sinkPc,
                   received>>

ProducerClose ==
    /\ prodIdx = Len(prodItems)
    /\ ~txInClosed
    /\ txInClosed' = TRUE
    /\ UNCHANGED nonPipeVars
    /\ UNCHANGED <<prodItems, prodIdx, chIn, chOut, bufSize, workers, filenames, wpc,
                   wctx, wdirerr, conductPc, spawned, joined, txOutClosed, sinkPc,
                   received>>

(***************************************************************************)
(* How process() ending shows in conduct: in the sync pipeline process     *)
(* runs on the thread of conduct, so its result is the result of conduct;  *)
(* in the threaded pipeline the worker thread ends and conduct sees it at  *)
(* join.                                                                   *)
(***************************************************************************)
ConductAfter(outcome) ==
    IF IsSync
    THEN CASE outcome = "done"     -> "returned_ok"
           [] outcome = "err"      -> "returned_err"
           [] outcome = "panicked" -> "panicked"
    ELSE conductPc

\* Mutant of WorkerEnd: the threaded worker closure lets the error go.
WorkerEndKeepsErr(outcome) == outcome

\* A send error out of process() makes the threaded worker closure panic.
WorkerEnd(outcome) ==
    IF ~IsSync /\ outcome = "err" THEN "panicked" ELSE outcome

(***************************************************************************)
(* UnbatchedProcessor::process, one context at a time: the iterator chain  *)
(* rx.iter().map(mkdir).map(render+write).try_for_each(send) is lazy, so a *)
(* worker pulls the next context only after the send of the previous one.  *)
(***************************************************************************)
WorkerRecv(w) ==
    /\ wpc[w] = "recv"
    /\ chIn # <<>>
    /\ wctx' = [wctx EXCEPT ![w] = Head(chIn)]
    /\ chIn' = Tail(chIn)
    /\ wpc' = [wpc EXCEPT ![w] = "mkdir"]
    /\ UNCHANGED nonPipeVars
    /\ UNCHANGED <<prodItems, prodIdx, txInClosed, chOut, bufSize, workers, filenames,
                   wdirerr, conductPc, spawned, joined, txOutClosed, sinkPc, received>>

\* rx.iter() ends when the channel is empty and every sender is gone.
WorkerExit(w) ==
    /\ wpc[w] = "recv"
    /\ chIn = <<>>
    /\ txInClosed
    /\ wpc' = [wpc EXCEPT ![w] = WorkerEnd("done")]
    /\ conductPc' = ConductAfter("done")
    /\ UNCHANGED nonPipeVars
    /\ UNCHANGED <<prodItems, prodIdx, txInClosed, chIn, chOut, bufSize, workers,
                   filenames, wctx, wdirerr, spawned, joined, txOutClosed, sinkPc,
                   received>>

\* Mutant of WorkerMkdir: a create_dir_all failure ends the worker.
WorkerMkdirFatal(w) ==
    /\ wpc[w] = "mkdir"
    /\ \E failed \in BOOLEAN :
          /\ wdirerr' = [wdirerr EXCEPT ![w] = failed]
          /\ wpc' = [wpc EXCEPT ![w] = IF failed THEN "panicked" ELSE "lookup"]
    /\ UNCHANGED nonPipeVars
    /\ UNCHANGED <<prodItems, prodIdx, txInClosed, chIn, chOut, bufSize, workers,
                   filenames, wctx, conductPc, spawned, joined, txOutClosed, sinkPc,
                   received>>

\* create_dir_all: a failure is printed and the context goes on.
WorkerMkdir(w) ==
    /\ wpc[w] = "mkdir"
    /\ \E failed \in BOOLEAN : wdirerr' = [wdirerr EXCEPT ![w] = failed]
    /\ wpc' = [wpc EXCEPT ![w] = "lookup"]
    /\ UNCHANGED nonPipeVars
    /\ UNCHANGED <<prodItems, prodIdx, txInClosed, chIn, chOut, bufSize, workers,
                   filenames, wctx, conductPc, spawned, joined, txOutClosed, sinkPc,
                   received>>

\* Mutant of WorkerLookup: a context without a registered template is let go
\* and the worker takes the next one.
WorkerLookupSkips(w) ==
    /\ wpc[w] = "lookup"
    /\ LET found == wctx[w][2] \in filenames
       IN  /\ wpc' = [wpc EXCEPT ![w] = IF found THEN "render" ELSE "recv"]
           /\ wctx' = [wctx EXCEPT ![w] = IF found THEN wctx[w] ELSE None]
    /\ UNCHANGED nonPipeVars
    /\ UNCHANGED <<prodItems, prodIdx, txInClosed, chIn, chOut, bufSize, workers,
                   filenames, wdirerr, conductPc, spawned, joined, txOutClosed, sinkPc,
                   received>>

\* templates.file_name(run.name): None panics.
WorkerLookup(w) ==
    /\ wpc[w] = "lookup"
    /\ LET found == wctx[w][2] \in filenames
           outcome == IF found THEN "render" ELSE "panicked"
       IN  /\ wpc' = [wpc EXCEPT ![w] = outcome]
           /\ conductPc' = IF found THEN conductPc ELSE ConductAfter("panicked")
    /\ UNCHANGED nonPipeVars
    /\ UNCHANGED <<prodItems, prodIdx, txInClosed, chIn, chOut, bufSize, workers,
                   filenames, wctx, wdirerr, spawned, joined, txOutClosed, sinkPc,
                   received>>

\* Mutant of WorkerRender: the context is forwarded as soon as it is rendered.
WorkerRenderThenSend(w) ==
    /\ wpc[w] = "render"
    /\ \E ok \in BOOLEAN :
          /\ wpc' = [wpc EXCEPT ![w] = IF ok THEN "send" ELSE "panicked"]
          /\ conductPc' = IF ok THEN conductPc ELSE ConductAfter("panicked")
    /\ UNCHANGED nonPipeVars
    /\ UNCHANGED <<prodItems, prodIdx, txInClosed, chIn, chOut, bufSize, workers,
                   filenames, wctx, wdirerr, spawned, joined, txOutClosed, sinkPc,
                   received>>

\* templates.render(&ctx).unwrap(): an Err panics.
WorkerRender(w) ==
    /\ wpc[w] = "render"
    /\ \E ok \in BOOLEAN :
          /\ wpc' = [wpc EXCEPT ![w] = IF ok THEN "write" ELSE "panicked"]
          /\ conductPc' = IF ok THEN conductPc ELSE ConductAfter("panicked")
    /\ UNCHANGED nonPipeVars
    /\ UNCHANGED <<prodItems, prodIdx, txInClosed, chIn, chOut, bufSize, workers,
                   filenames, wctx, wdirerr, spawned, joined, txOutClosed, sinkPc,
                   received>>

\* std::fs::write: an Err panics.
WorkerWrite(w) ==
    /\ wpc[w] = "write"
    /\ \E ok \in BOOLEAN :
          /\ wpc' = [wpc EXCEPT ![w] = IF ok THEN "send" ELSE "panicked"]
          /\ conductPc' = IF ok THEN conductPc ELSE ConductAfter("panicked")
    /\ UNCHANGED nonPipeVars
    /\ UNCHANGED <<prodItems, prodIdx, txInClosed, chIn, chOut, bufSize, workers,
                   filenames, wctx, wdirerr, spawned, joined, txOutClosed, sinkPc,
                   received>>

\* Mutant: a send that does not wait for room and drops the context when the
\* output channel is full.
WorkerSendTry(w) ==
    /\ wpc[w] = "send"
    /\ chOut' = IF Len(chOut) < bufSize THEN Append(chOut, wctx[w]) ELSE chOut
    /\ wctx' = [wctx EXCEPT ![w] = None]
    /\ wdirerr' = [wdirerr EXCEPT ![w] = FALSE]
    /\ wpc' = [wpc EXCEPT ![w] = "recv"]
    /\ UNCHANGED nonPipeVars
    /\ UNCHANGED <<prodItems, prodIdx, txInClosed, chIn, bufSize, workers, filenames,
                   conductPc, spawned, joined, txOutClosed, sinkPc, received>>

\* Mutant of WorkerSend: a send on a channel without a capacity, which never
\* waits.
WorkerSendNoWait(w) ==
    /\ wpc[w] = "send"
    /\ sinkPc # "dropped"
    /\ chOut' = Append(chOut, wctx[w])
    /\ wctx' = [wctx EXCEPT ![w] = None]
    /\ wdirerr' = [wdirerr EXCEPT ![w] = FALSE]
    /\ wpc' = [wpc EXCEPT ![w] = "recv"]
    /\ UNCHANGED nonPipeVars
    /\ UNCHANGED <<prodItems, prodIdx, txInClosed, chIn, bufSize, workers, filenames,
                   conductPc, spawned, joined, txOutClosed, sinkPc, received>>

\* tx.send(ctx): blocks while the output channel is full and its receiver is
\* there.
WorkerSend(w) ==
    /\ wpc[w] = "send"
    /\ sinkPc # "dropped"
    /\ Len(chOut) < bufSize
    /\ chOut' = Append(chOut, wctx[w])
    /\ wctx' = [wctx EXCEPT ![w] = None]
    /\ wdirerr' = [wdirerr EXCEPT ![w] = FALSE]
    /\ wpc' = [wpc EXCEPT ![w] = "recv"]
    /\ UNCHANGED nonPipeVars
    /\ UNCHANGED <<prodItems, prodIdx, txInClosed, chIn, bufSize, workers, filenames,
                   conductPc, spawned, joined, txOutClosed, sinkPc, received>>

Worker(w) ==
    \/ WorkerRecv(w)
    \/ WorkerExit(w)
    \/ WorkerMkdir(w)
    \/ WorkerLookup(w)
    \/ WorkerRender(w)
    \/ WorkerWrite(w)
    \/ WorkerSend(w)

\* Mutant: a sync pipeline that runs process on a second thread as well.
SyncConductTwo ==
    /\ IsSync
    /\ conductPc = "idle"
    /\ conductPc' = "running"
    /\ wpc' = [w \in Workers |-> IF w <= 2 THEN "recv" ELSE wpc[w]]
    /\ spawned' = 1
    /\ UNCHANGED nonPipeVars
    /\ UNCHANGED <<prodItems, prodIdx, txInClosed, chIn, chOut, bufSize, workers,
                   filenames, wctx, wdirerr, joined, txOutClosed, sinkPc, received>>

(***************************************************************************)
(* SyncPipeline::conduct: calls process on its own thread (worker 1).      *)
(***************************************************************************)
SyncConduct ==
    /\ IsSync
    /\ conductPc = "idle"
    /\ conductPc' = "running"
    /\ wpc' = [wpc EXCEPT ![1] = "recv"]
    /\ spawned' = 1
    /\ UNCHANGED nonPipeVars
    /\ UNCHANGED <<prodItems, prodIdx, txInClosed, chIn, chOut, bufSize, workers,
                   filenames, wctx, wdirerr, joined, txOutClosed, sinkPc, received>>

(***************************************************************************)
(* ThreadedPipeline::conduct: spawn self.workers scoped threads, then join *)
(* them in order; a panicked worker makes the join's expect panic, and the *)
(* scope lets the remaining threads end before the panic leaves conduct.   *)
(***************************************************************************)
ConductSpawn ==
    /\ ~IsSync
    /\ conductPc \in {"idle", "spawning"}
    /\ spawned < workers
    /\ spawned' = spawned + 1
    /\ wpc' = [wpc EXCEPT ![spawned + 1] = "recv"]
    /\ conductPc' = IF spawned + 1 = workers THEN "joining" ELSE "spawning"
    /\ UNCHANGED nonPipeVars
    /\ UNCHANGED <<prodItems, prodIdx, txInClosed, chIn, chOut, bufSize, workers,
                   filenames, wctx, wdirerr, joined, txOutClosed, sinkPc, received>>

\* Mutant: conduct that returns as soon as the first worker thread is joined.
ConductJoinFirstOnly ==
    /\ conductPc = "joining"
    /\ joined < workers
    /\ wpc[joined + 1] \in {"done", "panicked"}
    /\ IF wpc[joined + 1] = "done"
       THEN /\ joined' = joined + 1
            /\ conductPc' = "returned_ok"
       ELSE /\ joined' = joined
            /\ conductPc' = "unwinding"
    /\ UNCHANGED nonPipeVars
    /\ UNCHANGED <<prodItems, prodIdx, txInClosed, chIn, chOut, bufSize, workers,
                   filenames, wpc, wctx, wdirerr, spawned, txOutClosed, sinkPc,
                   received>>

ConductJoin ==
    /\ conductPc = "joining"
    /\ joined < workers
    /\ wpc[joined + 1] \in {"done", "panicked"}
    /\ IF wpc[joined + 1] = "done"
       THEN /\ joined' = joined + 1
            /\ conductPc' = IF joined + 1 = workers THEN "returned_ok" ELSE "joining"
       ELSE /\ joined' = joined
            /\ conductPc' = "unwinding"
    /\ UNCHANGED nonPipeVars
    /\ UNCHANGED <<prodItems, prodIdx, txInClosed, chIn, chOut, bufSize, workers,
                   filenames, wpc, wctx, wdirerr, spawned, txOutClosed, sinkPc,
                   received>>

ConductUnwind ==
    /\ conductPc = "unwinding"
    /\ \A w \in 1..workers : wpc[w] \in {"done", "panicked"}
    /\ conductPc' = "panicked"
    /\ UNCHANGED nonPipeVars
    /\ UNCHANGED <<prodItems, prodIdx, txInClosed, chIn, chOut, bufSize, workers,
                   filenames, wpc, wctx, wdirerr, spawned, joined, txOutClosed, sinkPc,
                   received>>

(***************************************************************************)
(* The surrounding driver: drops tx_out once conduct has returned; the     *)
(* sink drains rx_out until it is empty and closed.                        *)
(***************************************************************************)
DropTxOut ==
    /\ conductPc \in {"returned_ok", "returned_err"}
    /\ ~txOutClosed
    /\ txOutClosed' = TRUE
    /\ UNCHANGED nonPipeVars
    /\ UNCHANGED <<prodItems, prodIdx, txInClosed, chIn, chOut, bufSize, workers,
                   filenames, wpc, wctx, wdirerr, conductPc, spawned, joined, sinkPc,
                   received>>

SinkRecv ==
    /\ sinkPc = "draining"
    /\ chOut # <<>>
    /\ received' = Append(received, Head(chOut))
    /\ chOut' = Tail(chOut)
    /\ UNCHANGED nonPipeVars
    /\ UNCHANGED <<prodItems, prodIdx, txInClosed, chIn, bufSize, workers, filenames,
                   wpc, wctx, wdirerr, conductPc, spawned, joined, txOutClosed, sinkPc>>

SinkExit ==
    /\ sinkPc = "draining"
    /\ chOut = <<>>
    /\ txOutClosed
    /\ sinkPc' = "done"
    /\ UNCHANGED nonPipeVars
    /\ UNCHANGED <<prodItems, prodIdx, txInClosed, chIn, chOut, bufSize, workers,
                   filenames, wpc, wctx, wdirerr, conductPc, spawned, joined,
                   txOutClosed, received>>

PipeNext ==
    \/ ProducerSend
    \/ ProducerClose
    \/ \E w \in Workers : Worker(w)
    \/ SyncConduct
    \/ ConductSpawn
    \/ ConductJoin
    \/ ConductUnwind
    \/ DropTxOut
    \/ SinkRecv
    \/ SinkExit

(***************************************************************************)
(* The variables of a component that a specification does not exercise     *)
(* stay at these values.                                                   *)
(***************************************************************************)
PipeIdle ==
    /\ prodItems = <<>>
    /\ prodIdx = 0
    /\ txInClosed = FALSE
    /\ chIn = <<>>
    /\ chOut = <<>>
    /\ bufSize = 1
    /\ workers = 1
    /\ filenames = {}
    /\ wpc = [w \in Workers |-> "unspawned"]
    /\ wctx = [w \in Workers |-> None]
    /\ wdirerr = [w \in Workers |-> FALSE]
    /\ conductPc = "idle"
    /\ spawned = 0
    /\ joined = 0
    /\ txOutClosed = FALSE
    /\ sinkPc = "draining"
    /\ received = <<>>

GenIdle ==
    /\ sites = <<>>
    /\ runs = <<"r1">>
    /\ site_sample_size = <<>>
    /\ sitePos = 0
    /\ curr_site = <<>>
    /\ current_site_count = 0
    /\ current_run = 0
    /\ emitted = <<>>
    /\ lastNext = "new"
    /\ noneCount = 0

\* Registries::new
RegInit ==
    /\ namespaces = {}
    /\ regMap = <<>>
    /\ ret = [op |-> "new", res |-> "Ok"]
    /\ opCount = 0
    /\ claimLog = <<>>
    /\ regLog = <<>>

\* Before main() has loaded anything.
CfgInit ==
    /\ cfgPhase = "new"
    /\ cfgDoc = <<>>
    /\ decoded = <<>>
    /\ sitesRet = <<>>

\* Before config::init has been called.
ValIdle ==
    /\ initPc = "new"
    /\ initArgs = <<>>
    /\ initFs = <<>>
    /\ initDoc = <<>>
    /\ initRet = <<>>

\* No value decoded yet.
TplIdle ==
    /\ tplPc = "new"
    /\ tplSrc = <<>>
    /\ tplValue = <<>>
    /\ tplOut = <<>>

\* No evaluation started.
IpIdle ==
    /\ ipExtra = <<>>
    /\ ipRoot = <<>>
    /\ ipStack = <<>>
    /\ ipRet = <<>>

\* No call made on a context.
CtxIdle ==
    /\ ctxExtra = <<>>
    /\ ctxCall = <<>>
    /\ ctxRet = <<>>

\* No pipeline asked for yet.
SelIdle ==
    /\ selArgs = <<>>
    /\ selRet = <<>>

\* No vector dataset opened.
VecIdle ==
    /\ vecDs = <<>>
    /\ vecGen = <<>>
    /\ vecOut = <<>>

\* No raster dataset opened.
RasIdle ==
    /\ rasBand = <<>>
    /\ rasGen = <<>>
    /\ rasOut = <<>>

\* No GeoDeg has been formatted.
GeoIdle ==
    /\ geoCall = <<>>
    /\ geoRet = <<>>

\* No output path is computed.
WriteIdle ==
    /\ workdir = <<>>
    /\ siteGeo = <<>>
    /\ tplFiles = <<>>

\* No K2HashMap is in use.
K2Idle ==
    /\ k2Map = <<>>
    /\ k2Log = <<>>

LateIdle == CtxIdle /\ SelIdle /\ VecIdle /\ RasIdle /\ GeoIdle /\ WriteIdle /\ K2Idle

ExtIdle == ValIdle /\ TplIdle /\ IpIdle /\ LateIdle

Init == PipeInit /\ GenIdle /\ RegInit /\ CfgInit /\ ExtIdle
Next == PipeNext

Spec == Init /\ [][Next]_vars

(***************************************************************************)
(* ContextGenerator (processing/context/gen.rs).                           *)
(***************************************************************************)
RunLists == SeqsUpTo(RunNames, MaxRuns) \ {<<>>}
SampleSizes == {<<>>} \cup {<<n>> : n \in 0..MaxCap}

\* ContextGenerator::new
GenInit ==
    /\ sites \in SeqsUpTo(SiteIds, MaxSites)
    /\ runs \in RunLists
    /\ site_sample_size \in SampleSizes
    /\ sitePos = 0
    /\ curr_site = <<>>
    /\ current_site_count = 0
    /\ current_run = 0
    /\ emitted = <<>>
    /\ lastNext = "new"
    /\ noneCount = 0

\* Mutant: a sample test that lets one context too many through.
SampleReachedOffByOne ==
    site_sample_size # <<>> /\ current_site_count > site_sample_size[1]

\* The sample-size test at the top of next().
SampleReached ==
    site_sample_size # <<>> /\ current_site_count >= site_sample_size[1]

\* Mutant: a wrap test that moves to the next site one run too early.
RunsExhaustedEarly == current_run + 1 >= Len(runs) /\ current_run > 0

\* Mutant of RunsExhausted: the wrap happens one call too late.
RunsExhaustedLate == current_run > Len(runs)

\* The wrap of current_run once every run of the site was emitted.
RunsExhausted == current_run >= Len(runs)

\* <ContextGenerator as Iterator>::next, the whole call.  self.runs[..] with
\* an index that is not below runs.len() panics, and the generator is gone.
GenNext ==
    /\ noneCount < MaxNoneCalls
    /\ lastNext # "panic"
    /\ IF SampleReached
       THEN /\ lastNext' = "None"
            /\ noneCount' = noneCount + 1
            /\ UNCHANGED <<sitePos, curr_site, current_site_count, current_run, emitted>>
       ELSE LET run1  == IF RunsExhausted THEN 0 ELSE current_run
                site1 == IF RunsExhausted THEN <<>> ELSE curr_site
                pull  == site1 = <<>>
                more  == sitePos < Len(sites)
                site2 == IF pull
                         THEN (IF more THEN <<sites[sitePos + 1]>> ELSE <<>>)
                         ELSE site1
            IN  /\ sitePos' = IF pull /\ more THEN sitePos + 1 ELSE sitePos
                /\ curr_site' = site2
                /\ IF site2 = <<>>
                   THEN /\ current_run' = run1
                        /\ lastNext' = "None"
                        /\ noneCount' = noneCount + 1
                        /\ UNCHANGED <<current_site_count, emitted>>
                   ELSE IF run1 >= Len(runs)
                   THEN /\ current_run' = run1
                        /\ lastNext' = "panic"
                        /\ UNCHANGED <<current_site_count, emitted, noneCount>>
                   ELSE /\ current_run' = run1 + 1
                        /\ current_site_count' = current_site_count + 1
                        /\ emitted' = Append(emitted, <<site2[1], runs[run1 + 1]>>)
                        /\ lastNext' = "Some"
                        /\ UNCHANGED noneCount
    /\ UNCHANGED <<sites, runs, site_sample_size>>
    /\ UNCHANGED nonGenVars

GenSpecInit == GenInit /\ PipeIdle /\ RegInit /\ CfgInit /\ ExtIdle

GenSpec == GenSpecInit /\ [][GenNext]_vars

\* The Cartesian product sites x runs, sites outer and runs inner: position i
\* (from 1) holds sites[(i-1) div |runs|] and runs[(i-1) mod |runs|].
ProductAt(i) ==
    <<sites[((i - 1) \div Len(runs)) + 1], runs[((i - 1) % Len(runs)) + 1]>>
FullProduct == [i \in 1..(Len(sites) * Len(runs)) |-> ProductAt(i)]

Min(a, b) == IF a <= b THEN a ELSE b

\* C3: without a sample cap the generator emits the contexts of sites x runs
\* in order (sites outer, runs inner), returns None only once all
\* |sites| x |runs| of them are out, and keeps returning None afterwards.
C3_CartesianOrder ==
    site_sample_size = <<>> =>
       /\ IsPrefix(emitted, FullProduct)
       /\ noneCount >= 1 =>
             /\ Len(emitted) = Len(sites) * Len(runs)
             /\ emitted = FullProduct
             /\ lastNext = "None"

C3_Witness ==
    /\ site_sample_size = <<>>
    /\ noneCount = 2
    /\ Len(sites) >= 2
    /\ Len(runs) >= 2
    /\ Len(emitted) = Len(sites) * Len(runs)
    /\ sites[1] # sites[2]
    /\ runs[1] # runs[2]

\* C4: with a sample cap Some(N) the generator emits exactly
\* min(N, |sites| x |runs|) contexts, and they are the first ones of the
\* sequence emitted without a cap.
C4_SampleCap ==
    site_sample_size # <<>> =>
       LET total == Min(site_sample_size[1], Len(sites) * Len(runs))
       IN  /\ IsPrefix(emitted, FullProduct)
           /\ Len(emitted) <= total
           /\ noneCount >= 1 => (Len(emitted) = total /\ lastNext = "None")

C4_Witness ==
    /\ site_sample_size # <<>>
    /\ noneCount >= 1
    /\ site_sample_size[1] >= 1
    /\ site_sample_size[1] < Len(sites) * Len(runs)
    /\ Len(emitted) = site_sample_size[1]
    /\ Len(emitted) % Len(runs) # 0

(***************************************************************************)
(* Strings are sequences of one-character strings.                         *)
(***************************************************************************)
Lower == {"a", "b", "c", "d", "e", "f", "g", "h", "i", "j", "k", "l", "m",
          "n", "o", "p", "q", "r", "s", "t", "u", "v", "w", "x", "y", "z"}
Digit == {"0", "1", "2", "3", "4", "5", "6", "7", "8", "9"}

\* The names tried as namespace and as id: the empty string, names of
\* lowercase letters, digits and dash, and names with an uppercase letter or
\* a dot.
Names == { <<>>, <<"a">>, <<"-">>, <<"a", "0">>,
           <<"A">>, <<"a", "A">>, <<"a", ".">> }

\* Mutant: the name rule written with * instead of +, which lets the empty
\* string through.
ReValidNamespaceOrIdStar(s) ==
    \A i \in 1..Len(s) : s[i] \in Lower \cup Digit \cup {"-"}

\* RE_VALID_NAMESPACE_OR_ID = ^[a-z0-9-]+$
ReValidNamespaceOrId(s) ==
    /\ Len(s) >= 1
    /\ \A i \in 1..Len(s) : s[i] \in Lower \cup Digit \cup {"-"}

(***************************************************************************)
(* K2HashMap (utils/threehashmap.rs): a map of maps.                       *)
(***************************************************************************)
\* Mutant of K2Insert: the inner map of key1 is replaced by one that holds the
\* new entry only.
K2InsertReplacesInner(m, k1, k2, v) ==
    IF k1 \in DOMAIN m THEN [m EXCEPT ![k1] = (k2 :> v)]
    ELSE m @@ (k1 :> (k2 :> v))

K2Insert(m, k1, k2, v) ==
    IF k1 \in DOMAIN m
    THEN [m EXCEPT ![k1] = IF k2 \in DOMAIN @
                           THEN [@ EXCEPT ![k2] = v]
                           ELSE @ @@ (k2 :> v)]
    ELSE m @@ (k1 :> (k2 :> v))

\* Option<&V>: <<>> is None, <<v>> is Some(v).
K2Get(m, k1, k2) ==
    IF k1 \in DOMAIN m
    THEN (IF k2 \in DOMAIN m[k1] THEN <<m[k1][k2]>> ELSE <<>>)
    ELSE <<>>

K2ContainsKey(m, k1, k2) ==
    IF k1 \in DOMAIN m THEN k2 \in DOMAIN m[k1] ELSE FALSE

K2Keys(m) == UNION {{<<k1, k2>> : k2 \in DOMAIN m[k1]} : k1 \in DOMAIN m}

K2Iter(m) == {<<k[1], k[2], m[k[1]][k[2]]>> : k \in K2Keys(m)}

RECURSIVE SumLens(_, _)
SumLens(m, ks) ==
    IF ks = {} THEN 0
    ELSE LET k == CHOOSE x \in ks : TRUE
         IN  Cardinality(DOMAIN m[k]) + SumLens(m, ks \ {k})

K2Len(m) == SumLens(m, DOMAIN m)

(***************************************************************************)
(* Registry<T> (registry/mod.rs): an Identifier is (namespace, id).        *)
(***************************************************************************)
Resources == {"driver_vector", "driver_raster"}

\* Mutant: is_registered with the two keys passed in the wrong order.
IsRegisteredSwapped(ns, id) == K2ContainsKey(regMap, id, ns)

IsRegistered(ns, id) == K2ContainsKey(regMap, ns, id)

RegGetForeign(ns, id) == K2Get(regMap, ns, id)
RegGet(ns, id) == RegGetForeign(ns, id)
RegIds == K2Keys(regMap)
RegEntries == K2Iter(regMap)
RegLen == K2Len(regMap)

\* Mutant: register validating the namespace string instead of the id.
RegisterResultWrongField(ns, id) ==
    IF ~ReValidNamespaceOrId(ns) THEN "IllegalName"
    ELSE IF IsRegistered(ns, id) THEN "AlreadyRegistered"
    ELSE "Ok"

\* The outcome of Registry::register.
RegisterResult(ns, id) ==
    IF ~ReValidNamespaceOrId(id) THEN "IllegalName"
    ELSE IF IsRegistered(ns, id) THEN "AlreadyRegistered"
    ELSE "Ok"

\* Mutant: claim_namespace without the test for an existing claim.
ClaimResultNoDupeTest(name) ==
    IF ~ReValidNamespaceOrId(name) THEN "IllegalName" ELSE "Ok"

\* The outcome of Registries::claim_namespace.
ClaimResult(name) ==
    IF ~ReValidNamespaceOrId(name) THEN "IllegalName"
    ELSE IF name \in namespaces THEN "NamespaceAlreadyClaimed"
    ELSE "Ok"

LogAppend(log, k, e) ==
    IF k \in DOMAIN log THEN [log EXCEPT ![k] = Append(@, e)] ELSE log @@ (k :> <<e>>)

\* Registries::claim_namespace(name)
ClaimNamespace(name) ==
    /\ opCount < MaxOps
    /\ LET res == ClaimResult(name)
       IN  /\ namespaces' = IF res = "Ok" THEN namespaces \cup {name} ELSE namespaces
           /\ ret' = [op |-> "claim", name |-> name, res |-> res,
                      val |-> IF res = "Ok" THEN <<name>> ELSE <<>>]
           /\ claimLog' = LogAppend(claimLog, name, ret')
    /\ opCount' = opCount + 1
    /\ UNCHANGED <<regMap, regLog>>
    /\ UNCHANGED nonRegVars

\* Mutant of Register: the entry is stored with the two keys in the wrong
\* order.
RegisterKeysSwapped(ns, id, resource) ==
    /\ opCount < MaxOps
    /\ ns \in namespaces
    /\ LET res == RegisterResult(ns, id)
       IN  /\ regMap' = IF res = "Ok" THEN K2Insert(regMap, id, ns, resource) ELSE regMap
           /\ ret' = [op |-> "register", ns |-> ns, id |-> id, resource |-> resource,
                      res |-> res]
           /\ regLog' = LogAppend(regLog, <<ns, id>>, ret')
    /\ opCount' = opCount + 1
    /\ UNCHANGED <<namespaces, claimLog>>
    /\ UNCHANGED nonRegVars

\* Registry::register(&ns.id(id), resource), with ns a Namespace handed out
\* by claim_namespace.
Register(ns, id, resource) ==
    /\ opCount < MaxOps
    /\ ns \in namespaces
    /\ LET res == RegisterResult(ns, id)
       IN  /\ regMap' = IF res = "Ok" THEN K2Insert(regMap, ns, id, resource) ELSE regMap
           /\ ret' = [op |-> "register", ns |-> ns, id |-> id, resource |-> resource,
                      res |-> res]
           /\ regLog' = LogAppend(regLog, <<ns, id>>, ret')
    /\ opCount' = opCount + 1
    /\ UNCHANGED <<namespaces, claimLog>>
    /\ UNCHANGED nonRegVars

RegNext ==
    \/ \E name \in Names : ClaimNamespace(name)
    \/ \E ns \in Names, id \in Names, r \in Resources : Register(ns, id, r)

RegSpecInit == RegInit /\ PipeIdle /\ GenIdle /\ CfgInit /\ ExtIdle

RegSpec == RegSpecInit /\ [][RegNext]_vars

(***************************************************************************)
(* Boot and the seeded configuration loader (main.rs, registry/itself.rs,  *)
(* registry/identifier.rs, registry/serialize.rs, config/sites.rs).        *)
(***************************************************************************)
Std == <<"s", "t", "d">>
Vector == <<"v", "e", "c", "t", "o", "r">>
Raster == <<"r", "a", "s", "t", "e", "r">>
Nope == <<"n", "o", "p", "e">>
Foo == <<"f", "o", "o">>
Bar == <<"b", "a", "r">>
Baz == <<"b", "a", "z">>

Qualified(ns, id) == ns \o <<":">> \o id

\* init_itself: claim `std`, then register std:vector and std:raster; the
\* first error ends it.
InitItself ==
    /\ cfgPhase = "new"
    /\ LET claim == ClaimResult(Std)
           reg1  == IF claim = "Ok" THEN RegisterResult(Std, Vector) ELSE "skipped"
           map1  == IF reg1 = "Ok"
                    THEN K2Insert(regMap, Std, Vector, "driver_vector") ELSE regMap
           reg2  == IF reg1 = "Ok"
                    THEN (IF ~ReValidNamespaceOrId(Raster) THEN "IllegalName"
                          ELSE IF K2ContainsKey(map1, Std, Raster) THEN "AlreadyRegistered"
                          ELSE "Ok")
                    ELSE "skipped"
           res   == IF claim # "Ok" THEN claim
                    ELSE IF reg1 # "Ok" THEN reg1 ELSE reg2
       IN  /\ namespaces' = IF claim = "Ok" THEN namespaces \cup {Std} ELSE namespaces
           /\ regMap' = IF reg2 = "Ok"
                        THEN K2Insert(map1, Std, Raster, "driver_raster") ELSE map1
           /\ ret' = [op |-> "init_itself", res |-> res,
                      val |-> IF res = "Ok" THEN <<Std>> ELSE <<>>]
           /\ cfgPhase' = IF res = "Ok" THEN "booted" ELSE "boot_failed"
    /\ opCount' = opCount + 1
    /\ UNCHANGED <<claimLog, regLog, cfgDoc, decoded, sitesRet>>
    /\ UNCHANGED <<pipeVars, genVars, extVars>>

\* The character class of RE_VALID_NAMESPACE_AND_ID.
IdChars == Lower \cup Digit \cup {".", "_", "-"}
IdCharsPlus(t) == Len(t) >= 1 /\ \A i \in 1..Len(t) : t[i] \in IdChars

\* Mutant of ColonSplits: the namespace group may be empty ([a-z0-9._-]*).
ColonSplitsLax(s) ==
    {k \in 1..Len(s) :
        /\ s[k] = ":"
        /\ \A i \in 1..(k - 1) : s[i] \in IdChars
        /\ IdCharsPlus(SubSeq(s, k + 1, Len(s)))}

\* Where ^(?:(?<ns>[a-z0-9._-]+):)?(?<id>[a-z0-9._-]+)$ can put the colon.
ColonSplits(s) ==
    {k \in 1..Len(s) :
        /\ s[k] = ":"
        /\ IdCharsPlus(SubSeq(s, 1, k - 1))
        /\ IdCharsPlus(SubSeq(s, k + 1, Len(s)))}

\* Mutant of ParseIdentifier: an absent namespace group stays empty instead of
\* taking the default namespace.
ParseIdentifierNoDefault(s, default_namespace) ==
    IF ColonSplits(s) # {}
    THEN LET k == CHOOSE k \in ColonSplits(s) : TRUE
         IN  [ok |-> TRUE, namespace |-> SubSeq(s, 1, k - 1), id |-> SubSeq(s, k + 1, Len(s))]
    ELSE IF IdCharsPlus(s)
         THEN [ok |-> TRUE, namespace |-> <<>>, id |-> s]
         ELSE [ok |-> FALSE, namespace |-> <<>>, id |-> <<>>]

\* PublicIdentifierSeed::deserialize
ParseIdentifier(s, default_namespace) ==
    IF ColonSplits(s) # {}
    THEN LET k == CHOOSE k \in ColonSplits(s) : TRUE
         IN  [ok |-> TRUE, namespace |-> SubSeq(s, 1, k - 1), id |-> SubSeq(s, k + 1, Len(s))]
    ELSE IF IdCharsPlus(s)
         THEN [ok |-> TRUE, namespace |-> default_namespace, id |-> s]
         ELSE [ok |-> FALSE, namespace |-> <<>>, id |-> <<>>]

\* ResourceSeed::deserialize: parse the identifier, look it up, clone.
ResourceSeedDeserialize(s, default_namespace) ==
    LET pid == ParseIdentifier(s, default_namespace)
    IN  IF ~pid.ok THEN [res |-> "BadIdentifier"]
        ELSE IF RegGet(pid.namespace, pid.id) = <<>> THEN [res |-> "NotRegistered"]
        ELSE [res |-> "Ok", resource |-> RegGet(pid.namespace, pid.id)[1]]

\* The `sites` objects tried: `type` absent (<<>>) or one of TypeStrings,
\* `sample_size` absent or a number, and some driver fields.
TypeStrings ==
    { Vector, Raster, Nope, Qualified(Std, Vector), Qualified(Std, Raster),
      Qualified(Std, Nope), Qualified(Nope, Vector), Qualified(Std, <<>>),
      Qualified(<<>>, Vector), <<":">>, <<>>, Qualified(Std, Qualified(Std, Vector)),
      <<"V">>, <<"v", ".", "1">>,
      Qualified(Foo, Bar), Qualified(Foo, Qualified(Bar, Baz)), Qualified(Foo, <<>>),
      Qualified(<<>>, Bar), Qualified(<<"a", "_">>, Bar), Qualified(<<"F">>, Bar) }
DriverFields == {"file", "site_id_key"}
SitesDocs ==
    [type : {<<>>} \cup {<<t>> : t \in TypeStrings},
     sample_size : {<<>>, <<0>>, <<2>>},
     fields : SUBSET DriverFields]

\* SiteSourceConfigVisitor::visit_map: `type` goes through the identifier
\* seed, `sample_size` is kept, every other key goes to args.
VisitSitesMap(doc, default_namespace) ==
    IF doc.type = <<>> THEN [res |-> "MissingType"]
    ELSE LET pid == ParseIdentifier(doc.type[1], default_namespace)
         IN  IF ~pid.ok THEN [res |-> "BadIdentifier"]
             ELSE [res |-> "Ok",
                   source_type |-> <<pid.namespace, pid.id>>,
                   sample_size |-> doc.sample_size,
                   args |-> doc.fields]

\* config::init: decode the document with the seed built in main(), whose
\* default namespace is the one init_itself returned.
DecodeConfig(doc) ==
    /\ cfgPhase = "booted"
    /\ cfgDoc' = doc
    /\ decoded' = VisitSitesMap(doc, ret.val[1])
    /\ cfgPhase' = "decoded"
    /\ UNCHANGED sitesRet
    /\ UNCHANGED <<pipeVars, genVars, regVars, extVars>>

\* Config::sites: look the driver up by the stored identifier.
ConfigSites ==
    /\ cfgPhase = "decoded"
    /\ decoded.res = "Ok"
    /\ LET driver == RegGet(decoded.source_type[1], decoded.source_type[2])
       IN  sitesRet' = IF driver = <<>> THEN [res |-> "DriverNotFound"]
                       ELSE [res |-> "Ok", driver |-> driver[1]]
    /\ cfgPhase' = "resolved"
    /\ UNCHANGED <<cfgDoc, decoded>>
    /\ UNCHANGED <<pipeVars, genVars, regVars, extVars>>

CfgNext ==
    \/ InitItself
    \/ \E doc \in SitesDocs : DecodeConfig(doc)
    \/ ConfigSites

CfgSpecInit == CfgInit /\ RegInit /\ PipeIdle /\ GenIdle /\ ExtIdle

CfgSpec == CfgSpecInit /\ [][CfgNext]_vars

\* The driver handle a decoded configuration carries, if any.
ConfigDriver(cfg) == IF "driver" \in DOMAIN cfg THEN <<cfg.driver>> ELSE <<>>

\* C10: sites.type is resolved against the driver registry while decoding:
\* a well-formed identifier with nothing registered under it makes the decode
\* fail as not registered, and a decoded configuration holds a clone of the
\* registered driver.
C10_ResolvedWhileDecoding ==
    cfgPhase \in {"decoded", "resolved"} /\ cfgDoc.type # <<>> =>
       LET pid == ParseIdentifier(cfgDoc.type[1], Std)
       IN  pid.ok =>
              IF RegGet(pid.namespace, pid.id) = <<>>
              THEN decoded.res = "NotRegistered"
              ELSE /\ decoded.res = "Ok"
                   /\ ConfigDriver(decoded) = RegGet(pid.namespace, pid.id)

(***************************************************************************)
(* Registry properties.                                                    *)
(***************************************************************************)
\* The name rule as the documentation states it: one or more characters,
\* each a lowercase letter, a digit or a dash.
LegalName(s) == s # <<>> /\ \A i \in 1..Len(s) : s[i] \in Lower \cup Digit \cup {"-"}

\* C6: of all the claim_namespace calls made with one legal name, the first
\* returns Ok with a Namespace carrying that name and every later one fails
\* with NamespaceAlreadyClaimed.
C6_ClaimAtMostOnce ==
    \A name \in DOMAIN claimLog :
       LegalName(name) =>
          /\ claimLog[name][1].res = "Ok"
          /\ claimLog[name][1].val = <<name>>
          /\ name \in namespaces
          /\ \A i \in 2..Len(claimLog[name]) :
                claimLog[name][i].res = "NamespaceAlreadyClaimed"

C6_Witness ==
    /\ Cardinality(namespaces) >= 2
    /\ \E name \in DOMAIN claimLog : LegalName(name) /\ Len(claimLog[name]) >= 2

\* C7: once register((ns,id), r) returned Ok, get and get_foreign return r
\* whatever was called since, and every later register at (ns,id) failed with
\* AlreadyRegistered.
C7_RegisteredStays ==
    \A k \in DOMAIN regLog :
       \A i \in 1..Len(regLog[k]) :
          regLog[k][i].res = "Ok" =>
             /\ RegGet(k[1], k[2]) = <<regLog[k][i].resource>>
             /\ RegGetForeign(k[1], k[2]) = <<regLog[k][i].resource>>
             /\ \A j \in (i + 1)..Len(regLog[k]) :
                   regLog[k][j].res = "AlreadyRegistered"

C7_Witness ==
    \E k \in DOMAIN regLog :
       /\ Len(regLog[k]) >= 2
       /\ regLog[k][1].res = "Ok"
       /\ regLog[k][2].res = "AlreadyRegistered"
       /\ regLog[k][2].resource # regLog[k][1].resource
       /\ ret.op = "claim"

\* C8: claim_namespace fails with IllegalName for every name that breaks the
\* name rule, the empty string included, and a failed claim changes neither
\* the claimed namespaces nor the registry.
C8_IllegalClaimRejected ==
    /\ [](ret.op = "claim" /\ ~LegalName(ret.name) => ret.res = "IllegalName")
    /\ [][(opCount' # opCount /\ ret'.op = "claim" /\ ret'.res # "Ok") =>
             /\ ret'.res \in {"IllegalName", "NamespaceAlreadyClaimed"}
             /\ namespaces' = namespaces
             /\ regMap' = regMap]_vars

C8_Witness ==
    /\ ret.op = "claim"
    /\ ret.name = <<>>
    /\ ret.res = "IllegalName"
    /\ namespaces # {}
    /\ RegLen >= 1

\* C9: register fails with IllegalName for every id that breaks the name
\* rule, a failed register changes none of len, ids, entries and get, and no
\* call replaces or removes a registered resource.
C9_FailedRegisterNoEffect ==
    /\ [](ret.op = "register" /\ ~LegalName(ret.id) => ret.res = "IllegalName")
    /\ [][(opCount' # opCount /\ ret'.op = "register" /\ ret'.res # "Ok") =>
             /\ ret'.res \in {"IllegalName", "AlreadyRegistered"}
             /\ RegLen' = RegLen
             /\ RegIds' = RegIds
             /\ RegEntries' = RegEntries
             /\ \A ns \in Names, id \in Names : RegGet(ns, id)' = RegGet(ns, id)]_vars
    /\ [][\A k \in RegIds : RegGet(k[1], k[2])' = RegGet(k[1], k[2])]_vars

C9_Witness ==
    /\ ret.op = "register"
    /\ ret.res = "IllegalName"
    /\ ret.id = <<"a", "A">>
    /\ RegLen >= 1

(***************************************************************************)
(* Identifier parsing properties.                                          *)
(***************************************************************************)
NoColon(s) == \A i \in 1..Len(s) : s[i] # ":"
ColonCount(s) == Cardinality({i \in 1..Len(s) : s[i] = ":"})

\* Default namespaces tried for the parser alone.
DefaultNamespaces == {Std, Nope, <<"a">>}

\* C11: with default namespace D a string `id` without a namespace part
\* parses to (D, id), exactly as the string `D:id` does, and resolves to the
\* resource `D:id` resolves to; after init_itself, `vector` with default
\* namespace `std` resolves to the driver registered as std:vector.
C11_DefaultNamespace ==
    /\ \A D \in DefaultNamespaces, t \in TypeStrings :
          NoColon(t) /\ ParseIdentifier(t, D).ok =>
             /\ ParseIdentifier(t, D) = [ok |-> TRUE, namespace |-> D, id |-> t]
             /\ ParseIdentifier(Qualified(D, t), D) = ParseIdentifier(t, D)
    /\ cfgPhase \in {"decoded", "resolved"} /\ cfgDoc.type # <<>> =>
          LET t == cfgDoc.type[1]
          IN  NoColon(t) /\ decoded.res = "Ok" => decoded.source_type = <<Std, t>>
    /\ cfgPhase = "resolved" /\ NoColon(cfgDoc.type[1]) =>
          LET qualified == ResourceSeedDeserialize(Qualified(Std, cfgDoc.type[1]), Std)
          IN  IF sitesRet.res = "Ok"
              THEN qualified = [res |-> "Ok", resource |-> sitesRet.driver]
              ELSE qualified.res = "NotRegistered"
    /\ cfgPhase = "resolved" /\ cfgDoc.type = <<Vector>> =>
          sitesRet = [res |-> "Ok", driver |-> "driver_vector"]

\* `vector` was decoded with default namespace `std` and resolved.
C11_Witness ==
    /\ cfgPhase = "resolved"
    /\ cfgDoc.type = <<Vector>>
    /\ decoded.source_type = <<Std, Vector>>
    /\ sitesRet.res = "Ok"
    /\ RegGet(Std, Vector) = <<sitesRet.driver>>

\* The strings the structure rule speaks about: characters of the parser's
\* class and colons only.
OverParserAlphabet(s) == \A i \in 1..Len(s) : s[i] \in IdChars \cup {":"}

\* `ns:id` or `id` with non-empty parts: at most one colon, and it is neither
\* the first nor the last character of a non-empty string.
HasIdentifierForm(s) ==
    /\ s # <<>>
    /\ ColonCount(s) <= 1
    /\ s[1] # ":"
    /\ s[Len(s)] # ":"

RejectedExamples ==
    { Qualified(Foo, Qualified(Bar, Baz)), Qualified(Foo, <<>>), Qualified(<<>>, Bar),
      <<":">>, <<>> }

C13_ParsedNamesAreLegal ==
    cfgPhase \in {"decoded", "resolved"} /\ decoded.res = "Ok" =>
       /\ LegalName(decoded.source_type[1])
       /\ LegalName(decoded.source_type[2])

(***************************************************************************)
(* config::init (config/mod.rs, config/runs.rs): parse the arguments, load *)
(* and decode the document, validate arguments and configuration.          *)
(***************************************************************************)
Upper == {"A", "B", "C", "D", "E", "F", "G", "H", "I", "J", "K", "L", "M",
          "N", "O", "P", "Q", "R", "S", "T", "U", "V", "W", "X", "Y", "Z"}

\* RE_VALID_RUN_NAME: ^[a-zA-Z0-9_-]+$
ReValidRunName(s) ==
    /\ Len(s) >= 1
    /\ \A i \in 1..Len(s) : s[i] \in Lower \cup Upper \cup Digit \cup {"_", "-"}

\* What a path can be on disk.  A directory is empty, holds entries, or cannot
\* be listed (read_dir fails with something else than NotFound).
PathKinds == {"missing", "file", "empty_dir", "nonempty_dir", "unlistable_dir"}
PathExists(kind) == kind # "missing"
PathIsDir(kind) == kind \in {"empty_dir", "nonempty_dir", "unlistable_dir"}

\* The arguments tried: workdir is an Option, <<>> is None.
ArgsSet ==
    [workdir : {<<>>, <<"wd">>}, clear_workdir : BOOLEAN, config_file : {"config.json"}]

\* The run objects tried: a name and what the template path is on disk.
RunNameStrings == { <<"r", "1">>, <<"R", "_", "2">>, <<"r", " ">>, <<>> }
RunDocs == [name : RunNameStrings, template : {"file", "missing"}]

\* The documents tried: `sites` and `runs` may be absent (<<>>).
InitDocs ==
    [sites : {<<>>, <<[type |-> <<Vector>>, sample_size |-> <<>>, fields |-> {}]>>},
     runs : {<<>>} \cup {<<rs>> : rs \in SeqsUpTo(RunDocs, MaxRunDocs)}]

\* Args::parse, and the state of the disk init is going to look at.
InitParse(args, fs, doc) ==
    /\ initPc = "new"
    /\ args.workdir = <<>> => fs.workdir = "missing"
    /\ initArgs' = args
    /\ initFs' = fs
    /\ initDoc' = doc
    /\ initPc' = "parsed"
    /\ UNCHANGED initRet
    /\ UNCHANGED nonValVars
    /\ UNCHANGED nonExtVars

\* ConfigVisitor::visit_map: both fields are required, `sites` goes through
\* the sites seed.
VisitConfigMap(doc, default_namespace) ==
    IF doc.sites = <<>> \/ doc.runs = <<>> THEN [res |-> "MissingField"]
    ELSE LET sitesCfg == VisitSitesMap(doc.sites[1], default_namespace)
         IN  IF sitesCfg.res # "Ok" THEN [res |-> sitesCfg.res]
             ELSE [res |-> "Ok", sites |-> sitesCfg, runs |-> doc.runs[1]]

\* validate_workdir_is_directory, applied to Args.workdir when it is Some.
ValidateWorkdirIsDirectory(args, fs) ==
    IF args.workdir # <<>> /\ PathExists(fs.workdir) /\ ~PathIsDir(fs.workdir)
    THEN "ERRCODE_WORKDIR_NOT_DIR"
    ELSE "Ok"

\* Mutant of ValidateWorkdirOverrides: clear_workdir is not looked at.
ValidateWorkdirOverridesNoClear(args, fs) ==
    IF args.workdir = <<>> THEN "Ok"
    ELSE CASE fs.workdir = "nonempty_dir" -> "ERRCODE_WORKDIR_NOT_EMPTY"
           [] fs.workdir = "empty_dir" -> "Ok"
           [] fs.workdir = "missing" -> "Ok"
           [] OTHER -> "Panic"

\* validate_workdir_overrides
ValidateWorkdirOverrides(args, fs) ==
    IF args.workdir = <<>> \/ args.clear_workdir THEN "Ok"
    ELSE CASE fs.workdir = "nonempty_dir" -> "ERRCODE_WORKDIR_NOT_EMPTY"
           [] fs.workdir = "empty_dir" -> "Ok"
           [] fs.workdir = "missing" -> "Ok"
           [] OTHER -> "Panic"

\* Mutant of ValidateUniqueRunNames: the names seen are never remembered.
ValidateUniqueRunNamesNoInsert(rs) == "Ok"

\* validate_unique_run_names: the first run whose name an earlier run has.
ValidateUniqueRunNames(rs) ==
    IF \E i \in 1..Len(rs) : rs[i].name \in {rs[j].name : j \in 1..(i - 1)}
    THEN "ERRCODE_RUN_NAME_DUPE"
    ELSE "Ok"

\* validate_template_file_exists
ValidateTemplateFileExists(kind) ==
    IF ~PathExists(kind) \/ PathIsDir(kind) THEN "ERRCODE_TEMPLATE_FILE_NOT_FOUND" ELSE "Ok"

\* The derived Validate of RunConfig: every failed field is reported.
ValidateRunConfig(run) ==
    (IF ReValidRunName(run.name) THEN {} ELSE {"regex"})
    \cup ({ValidateTemplateFileExists(run.template)} \ {"Ok"})

\* The derived Validate of Config: length(min = 1), nested, custom; every
\* failed rule is reported.
ValidateConfig(cfg) ==
    (IF Len(cfg.runs) >= 1 THEN {} ELSE {"length"})
    \cup UNION {ValidateRunConfig(cfg.runs[i]) : i \in 1..Len(cfg.runs)}
    \cup ({ValidateUniqueRunNames(cfg.runs)} \ {"Ok"})

\* config::validate: the derived Validate of Args, then the workdir override
\* rule, then the derived Validate of Config; the first failure returns.
Validate(args, fs, cfg) ==
    LET isDir     == ValidateWorkdirIsDirectory(args, fs)
        overrides == IF isDir = "Ok" THEN ValidateWorkdirOverrides(args, fs) ELSE "skipped"
        config    == IF overrides = "Ok" THEN ValidateConfig(cfg) ELSE {"skipped"}
    IN  [res |-> IF isDir # "Ok" THEN "ConfigLoadError"
                 ELSE IF overrides = "Panic" THEN "Panic"
                 ELSE IF overrides # "Ok" THEN "ArgsValidationError"
                 ELSE IF config # {} THEN "ConfigLoadError"
                 ELSE "Ok",
         args_validate |-> isDir,
         workdir_overrides |-> overrides,
         config_validate |-> config]

\* config::init after Args::parse: the file test, the decode with the seed of
\* main() (default namespace `std`), the validation.
InitRun ==
    /\ initPc = "parsed"
    /\ LET decodedCfg == VisitConfigMap(initDoc, Std)
           checked == Validate(initArgs, initFs, decodedCfg)
       IN  initRet' =
              IF initFs.config_file # "file"
              THEN [res |-> "ConfigFileNotFound", stage |-> "load", config |-> <<>>]
              ELSE IF decodedCfg.res # "Ok"
              THEN [res |-> "ConfigLoadError", stage |-> "decode", config |-> <<>>]
              ELSE [res |-> checked.res, stage |-> "validate",
                    args_validate |-> checked.args_validate,
                    workdir_overrides |-> checked.workdir_overrides,
                    config_validate |-> checked.config_validate,
                    config |-> IF checked.res = "Ok" THEN <<decodedCfg>> ELSE <<>>]
    /\ initPc' = "returned"
    /\ UNCHANGED <<initArgs, initFs, initDoc>>
    /\ UNCHANGED nonValVars
    /\ UNCHANGED nonExtVars

InitNext ==
    \/ /\ initPc = "new"
       /\ \E args \in ArgsSet, doc \in InitDocs,
             fs \in [config_file : {"file", "missing"}, workdir : PathKinds] :
             InitParse(args, fs, doc)
    \/ InitRun

InitSpecInit == PipeIdle /\ GenIdle /\ RegInit /\ CfgInit /\ ExtIdle

InitSpec == InitSpecInit /\ [][InitNext]_vars

\* The run name rule as the specification states it: [A-Za-z0-9_-]+.
RunNameRule(s) ==
    s # <<>> /\ \A i \in 1..Len(s) : s[i] \in Lower \cup Upper \cup Digit \cup {"_", "-"}

PairwiseDistinctNames(rs) ==
    \A i, j \in 1..Len(rs) : i # j => rs[i].name # rs[j].name

GoodRuns(rs) ==
    /\ rs # <<>>
    /\ PairwiseDistinctNames(rs)
    /\ \A i \in 1..Len(rs) : RunNameRule(rs[i].name)

\* C14: a Config returned by init has a non-empty runs list with pairwise
\* distinct names that each match ^[A-Za-z0-9_-]+$; a document whose runs
\* list is empty, repeats a name or holds an ill-formed name makes init
\* return an error and no Config.
C14_RunsValidated ==
    initPc = "returned" =>
       /\ initRet.res = "Ok" =>
             /\ initRet.config # <<>>
             /\ initRet.config[1].runs = initDoc.runs[1]
             /\ GoodRuns(initRet.config[1].runs)
       /\ initDoc.runs # <<>> /\ ~GoodRuns(initDoc.runs[1]) =>
             /\ initRet.res \in {"ConfigFileNotFound", "ConfigLoadError",
                                 "ArgsValidationError", "Panic"}
             /\ initRet.config = <<>>
       /\ initRet.stage = "validate" /\ initRet.workdir_overrides = "Ok" =>
             (initRet.res = "ConfigLoadError" <=> initRet.config_validate # {})

\* A document whose two runs share a well-formed name reached the
\* configuration validation and was refused for the repeated name alone.
C14_Witness ==
    /\ initPc = "returned"
    /\ initRet.res = "ConfigLoadError"
    /\ initRet.stage = "validate"
    /\ initRet.config_validate = {"ERRCODE_RUN_NAME_DUPE"}
    /\ Len(initDoc.runs[1]) = 2

\* C15: argument validation refuses an explicit workdir that exists and is
\* not a directory, and an explicit workdir that holds an entry while
\* clear_workdir is false; it accepts a workdir that does not exist, an empty
\* one, a non-empty one with clear_workdir, and no workdir at all.
C15_WorkdirValidated ==
    initPc = "returned" /\ initRet.stage = "validate" =>
       LET some == initArgs.workdir # <<>>
           kind == initFs.workdir
           argsAccepted == /\ initRet.args_validate = "Ok"
                           /\ initRet.workdir_overrides = "Ok"
                           /\ initRet.res \in {"Ok", "ConfigLoadError"}
                           /\ initRet.res = "Ok" <=> initRet.config_validate = {}
       IN  /\ some /\ kind = "file" =>
                 /\ initRet.res = "ConfigLoadError"
                 /\ initRet.args_validate = "ERRCODE_WORKDIR_NOT_DIR"
           /\ some /\ kind = "nonempty_dir" /\ ~initArgs.clear_workdir =>
                 /\ initRet.res = "ArgsValidationError"
                 /\ initRet.workdir_overrides = "ERRCODE_WORKDIR_NOT_EMPTY"
           /\ ~some => argsAccepted
           /\ some /\ kind \in {"missing", "empty_dir"} => argsAccepted
           /\ some /\ kind = "nonempty_dir" /\ initArgs.clear_workdir => argsAccepted

\* A non-empty workdir without --clear-workdir was refused.
C15_Witness ==
    /\ initPc = "returned"
    /\ initArgs.workdir # <<>>
    /\ initFs.workdir = "nonempty_dir"
    /\ ~initArgs.clear_workdir
    /\ initRet.res = "ArgsValidationError"

(***************************************************************************)
(* Context values and template strings (processing/context/mod.rs).        *)
(*                                                                         *)
(* A JSON value is [t, s, n]: t is "string" (text s), "number" (integer    *)
(* n), "bool" (n is 1 for true, 0 for false) or "null".  A primitive       *)
(* context value is [t, s, n] with t one of "Bool", "Int", "Float" (n is   *)
(* twice the value), "String".  A fragment is [f, s] with f "Literal"  *)
(* or "Template".  A ContextValue is [kind, frags, prim].                  *)
(***************************************************************************)
JsonString(chars) == [t |-> "string", s |-> chars, n |-> 0]
JsonNumber(i) == [t |-> "number", s |-> <<>>, n |-> i]
JsonBool(b) == [t |-> "bool", s |-> <<>>, n |-> IF b THEN 1 ELSE 0]
JsonNull == [t |-> "null", s |-> <<>>, n |-> 0]

PrimString(chars) == [t |-> "String", s |-> chars, n |-> 0]
PrimInt(i) == [t |-> "Int", s |-> <<>>, n |-> i]
PrimBool(b) == [t |-> "Bool", s |-> <<>>, n |-> IF b THEN 1 ELSE 0]
PrimFloat(tenths) == [t |-> "Float", s |-> <<>>, n |-> tenths]

Literal(chars) == [f |-> "Literal", s |-> chars]
Template(chars) == [f |-> "Template", s |-> chars]

CvTemplateString(frags) == [kind |-> "TemplateString", frags |-> frags, prim |-> PrimInt(0)]
CvPrim(p) == [kind |-> "Prim", frags |-> <<>>, prim |-> p]

\* The characters the decoded strings are made of.
TplAlphabet == {"$", "{", "}", "a", "-"}

\* Longer strings: the canonical form of the specification, the strings of
\* tests::test_template_string, and a doubled opening.
LongStrings ==
    { <<"$", "{", "a", "}", "-", "$", "{", "b", "}">>,
      <<"$", "{", "a", "}", "$", "{", "a", "}">>,
      <<"$", "{", "f", "o", "o", "}", "-", "$", "{", "b", "a", "r", "}">>,
      <<"$", "{", "b", "a", "z", "}", "-", "b", "a", "z", "-", "$", "{", "b", "a", "z", "}">>,
      <<"f", "o", "o">>,
      <<"$", "{", "$", "{", "a", "}", "-", "}">> }

\* The JSON values handed to the decoders.
JsonValues ==
    {JsonString(chars) : chars \in SeqsUpTo(TplAlphabet, MaxTplLen) \cup LongStrings}
    \cup {JsonNumber(7), JsonBool(TRUE), JsonNull}

\* A match of \$\{[^}]+} that starts at i ends at the first `}` behind at
\* least one other character; 0 when there is no such match.
PlaceholderEnd(s, i) ==
    IF /\ i + 3 <= Len(s)
       /\ s[i] = "$"
       /\ s[i + 1] = "{"
       /\ s[i + 2] # "}"
       /\ \E j \in (i + 3)..Len(s) : s[j] = "}"
    THEN CHOOSE j \in (i + 3)..Len(s) :
            s[j] = "}" /\ \A k \in (i + 3)..(j - 1) : s[k] # "}"
    ELSE 0

\* A match of [^$]+ that starts at i runs up to the next `$` or the end; 0
\* when s[i] is `$`.
LiteralEnd(s, i) ==
    IF s[i] = "$" THEN 0
    ELSE CHOOSE j \in i..Len(s) :
            /\ \A k \in i..j : s[k] # "$"
            /\ j = Len(s) \/ s[j + 1] = "$"

\* Mutant of CapturesIter: a `$` where neither alternative matches is given
\* out as a match of its own instead of being skipped.
RECURSIVE CapturesIterKeepsDollar(_, _)
CapturesIterKeepsDollar(s, i) ==
    IF i > Len(s) THEN <<>>
    ELSE IF PlaceholderEnd(s, i) # 0
    THEN <<SubSeq(s, i, PlaceholderEnd(s, i))>>
            \o CapturesIterKeepsDollar(s, PlaceholderEnd(s, i) + 1)
    ELSE IF LiteralEnd(s, i) # 0
    THEN <<SubSeq(s, i, LiteralEnd(s, i))>> \o CapturesIterKeepsDollar(s, LiteralEnd(s, i) + 1)
    ELSE <<SubSeq(s, i, i)>> \o CapturesIterKeepsDollar(s, i + 1)

\* RE_TEMPLATE_STRING.captures_iter(s) from position i on: the leftmost
\* match, the first alternative first, then on behind it; a position where
\* neither alternative matches is skipped.
RECURSIVE CapturesIter(_, _)
CapturesIter(s, i) ==
    IF i > Len(s) THEN <<>>
    ELSE IF PlaceholderEnd(s, i) # 0
    THEN <<SubSeq(s, i, PlaceholderEnd(s, i))>> \o CapturesIter(s, PlaceholderEnd(s, i) + 1)
    ELSE IF LiteralEnd(s, i) # 0
    THEN <<SubSeq(s, i, LiteralEnd(s, i))>> \o CapturesIter(s, LiteralEnd(s, i) + 1)
    ELSE CapturesIter(s, i + 1)

StartsWithDollarBrace(t) == Len(t) >= 2 /\ t[1] = "$" /\ t[2] = "{"
EndsWithBrace(t) == Len(t) >= 1 /\ t[Len(t)] = "}"

\* str::trim_start_matches("${"): the prefix is removed as often as it is there.
RECURSIVE TrimStartMatches(_)
TrimStartMatches(t) ==
    IF StartsWithDollarBrace(t) THEN TrimStartMatches(SubSeq(t, 3, Len(t))) ELSE t

\* str::trim_end_matches('}')
RECURSIVE TrimEndMatches(_)
TrimEndMatches(t) ==
    IF EndsWithBrace(t) THEN TrimEndMatches(SubSeq(t, 1, Len(t) - 1)) ELSE t

\* The closure of TemplateString::deserialize: one match to one fragment.
ToFragment(matched) ==
    IF StartsWithDollarBrace(matched) /\ EndsWithBrace(matched)
    THEN Template(TrimEndMatches(TrimStartMatches(matched)))
    ELSE Literal(matched)

\* TemplateString::deserialize
TemplateStringDeserialize(json) ==
    IF json.t # "string" THEN [res |-> "Err", frags |-> <<>>]
    ELSE LET matches == CapturesIter(json.s, 1)
             fragments == [k \in 1..Len(matches) |-> ToFragment(matches[k])]
         IN  IF fragments = <<>> THEN [res |-> "Err", frags |-> <<>>]
             ELSE [res |-> "Ok", frags |-> fragments]

\* The derived untagged Deserialize of PrimitiveContextValue: Bool, Int,
\* Float, String, the first that fits.
PrimitiveDeserialize(json) ==
    CASE json.t = "bool" -> [res |-> "Ok", prim |-> PrimBool(json.n = 1)]
      [] json.t = "number" -> [res |-> "Ok", prim |-> PrimInt(json.n)]
      [] json.t = "string" -> [res |-> "Ok", prim |-> PrimString(json.s)]
      [] OTHER -> [res |-> "Err", prim |-> PrimInt(0)]

\* The derived untagged Deserialize of ContextValue: TemplateString is tried
\* first, Prim second.
ContextValueDeserialize(json) ==
    IF TemplateStringDeserialize(json).res = "Ok"
    THEN [res |-> "Ok", value |-> CvTemplateString(TemplateStringDeserialize(json).frags)]
    ELSE IF PrimitiveDeserialize(json).res = "Ok"
    THEN [res |-> "Ok", value |-> CvPrim(PrimitiveDeserialize(json).prim)]
    ELSE [res |-> "Err", value |-> CvPrim(PrimInt(0))]

\* Mutant of SerializeFragment: a placeholder is written without its braces.
SerializeFragmentNoBraces(fragment) ==
    IF fragment.f = "Literal" THEN fragment.s ELSE <<"$">> \o fragment.s

\* One fragment as TemplateString::serialize writes it.
SerializeFragment(fragment) ==
    IF fragment.f = "Literal" THEN fragment.s
    ELSE <<"$", "{">> \o fragment.s \o <<"}">>

\* TemplateString::serialize
RECURSIVE TemplateStringSerialize(_)
TemplateStringSerialize(frags) ==
    IF frags = <<>> THEN <<>>
    ELSE SerializeFragment(Head(frags)) \o TemplateStringSerialize(Tail(frags))

\* The derived untagged Serialize of PrimitiveContextValue and ContextValue.
PrimitiveSerialize(p) ==
    CASE p.t = "Bool" -> JsonBool(p.n = 1)
      [] p.t = "String" -> JsonString(p.s)
      [] OTHER -> JsonNumber(p.n)

ContextValueSerialize(value) ==
    IF value.kind = "TemplateString" THEN JsonString(TemplateStringSerialize(value.frags))
    ELSE PrimitiveSerialize(value.prim)

\* serde_json::from_value::<ContextValue>(json)
DecodeAsContextValue(json) ==
    /\ tplPc = "new"
    /\ tplSrc' = json
    /\ tplValue' = [as |-> "ContextValue",
                    res |-> ContextValueDeserialize(json).res,
                    value |-> ContextValueDeserialize(json).value]
    /\ tplPc' = "decoded"
    /\ UNCHANGED tplOut
    /\ UNCHANGED nonTplVars
    /\ UNCHANGED nonExtVars

\* serde_json::from_value::<TemplateString>(json)
DecodeAsTemplateString(json) ==
    /\ tplPc = "new"
    /\ tplSrc' = json
    /\ tplValue' = [as |-> "TemplateString",
                    res |-> TemplateStringDeserialize(json).res,
                    value |-> CvTemplateString(TemplateStringDeserialize(json).frags)]
    /\ tplPc' = "decoded"
    /\ UNCHANGED tplOut
    /\ UNCHANGED nonTplVars
    /\ UNCHANGED nonExtVars

\* serde_json::to_value of the decoded value.
SerializeDecoded ==
    /\ tplPc = "decoded"
    /\ tplValue.res = "Ok"
    /\ tplOut' = <<ContextValueSerialize(tplValue.value)>>
    /\ tplPc' = "serialized"
    /\ UNCHANGED <<tplSrc, tplValue>>
    /\ UNCHANGED nonTplVars
    /\ UNCHANGED nonExtVars

TplNext ==
    \/ tplPc = "new" /\ \E json \in JsonValues : DecodeAsContextValue(json)
    \/ tplPc = "new" /\ \E json \in JsonValues : DecodeAsTemplateString(json)
    \/ SerializeDecoded

TplSpecInit == PipeIdle /\ GenIdle /\ RegInit /\ CfgInit /\ ExtIdle

TplSpec == TplSpecInit /\ [][TplNext]_vars

\* The string holds a `${...}` placeholder.
HasPlaceholder(chars) ==
    \E i \in 1..Len(chars), j \in 1..Len(chars) :
       /\ i + 1 < j
       /\ chars[i] = "$"
       /\ chars[i + 1] = "{"
       /\ chars[j] = "}"

\* C16: a JSON string without a `${...}` placeholder decodes, as a
\* ContextValue, to Prim(String) of that string; a string decodes to a
\* TemplateString only if it holds a placeholder.
C16_PlainStringIsPrim ==
    tplPc # "new" /\ tplValue.as = "ContextValue" /\ tplSrc.t = "string" =>
       /\ tplValue.res = "Ok"
       /\ tplValue.value.kind = "TemplateString" => HasPlaceholder(tplSrc.s)
       /\ ~HasPlaceholder(tplSrc.s) => tplValue.value = CvPrim(PrimString(tplSrc.s))

\* The strings of the round trip: non-empty, and every `$` opens a
\* placeholder `${key}` whose key is non-empty and holds neither `}` nor `$`.
Canonical(chars) ==
    /\ chars # <<>>
    /\ \A i \in 1..Len(chars) :
          chars[i] = "$" =>
             /\ i + 1 <= Len(chars)
             /\ chars[i + 1] = "{"
             /\ \E j \in (i + 3)..Len(chars) :
                   /\ chars[j] = "}"
                   /\ \A k \in (i + 2)..(j - 1) : chars[k] \notin {"}", "$"}

\* C17: a string made of `${key}` placeholders and literal runs without `$`
\* decodes as a TemplateString with at least one fragment, and serializing
\* the decoded value gives the string back.
C17_RoundTrip ==
    tplPc # "new" /\ tplValue.as = "TemplateString"
    /\ tplSrc.t = "string" /\ Canonical(tplSrc.s) =>
       /\ tplValue.res = "Ok"
       /\ Len(tplValue.value.frags) >= 1
       /\ \A k \in 1..Len(tplValue.value.frags) : tplValue.value.frags[k].s # <<>>
       /\ tplPc = "serialized" => tplOut = <<tplSrc>>

\* The canonical form ${a}-${b} went through decode and serialize.
C17_Witness ==
    /\ tplPc = "serialized"
    /\ tplValue.as = "TemplateString"
    /\ tplSrc = JsonString(<<"$", "{", "a", "}", "-", "$", "{", "b", "}">>)
    /\ tplValue.value.frags = <<Template(<<"a">>), Literal(<<"-">>), Template(<<"b">>)>>
    /\ tplOut = <<tplSrc>>

(***************************************************************************)
(* Interpolation (processing/context/mod.rs): Context::get,                *)
(* ContextValue::to_prim, TemplateString::interpolate.  The calls of       *)
(* interpolate that are active form ipStack; the thread's stack holds at   *)
(* most MaxDepth of them.                                                  *)
(***************************************************************************)
DigitChars == <<"0", "1", "2", "3", "4", "5", "6", "7", "8", "9">>

\* i64::to_string
RECURSIVE NatToStr(_)
NatToStr(n) ==
    IF n < 10 THEN <<DigitChars[n + 1]>>
    ELSE NatToStr(n \div 10) \o <<DigitChars[(n % 10) + 1]>>

IntToStr(i) == IF i < 0 THEN <<"-">> \o NatToStr(-i) ELSE NatToStr(i)

\* f64::to_string of the value h / 2: no fraction is written for a whole number.
FloatToStr(h) ==
    LET abs == IF h < 0 THEN -h ELSE h
        sign == IF h < 0 THEN <<"-">> ELSE <<>>
    IN  sign \o NatToStr(abs \div 2) \o (IF abs % 2 = 1 THEN <<".", "5">> ELSE <<>>)

\* PrimitiveContextValue::as_string
PrimAsString(p) ==
    CASE p.t = "Bool" -> IF p.n = 1 THEN <<"t", "r", "u", "e">> ELSE <<"f", "a", "l", "s", "e">>
      [] p.t = "Int" -> IntToStr(p.n)
      [] p.t = "Float" -> FloatToStr(p.n)
      [] OTHER -> p.s

\* The context the values are evaluated in: site 7 at lon 15.5, lat -15, run r1.
CtxSite == [id |-> 7, lon |-> 31, lat |-> -30]
CtxRunName == <<"r", "1">>

SiteIdKey == <<"s", "i", "t", "e", "_", "i", "d">>
LngKey == <<"l", "n", "g">>
LonKey == <<"l", "o", "n">>
LatKey == <<"l", "a", "t">>
NameKey == <<"n", "a", "m", "e">>

\* Mutant of ContextGet: run.extra is looked at first.
ContextGetExtraFirst(extra, key) ==
    IF key \in DOMAIN extra THEN <<extra[key]>>
    ELSE CASE key = SiteIdKey -> <<CvPrim(PrimString(IntToStr(CtxSite.id)))>>
           [] key = LngKey -> <<CvPrim(PrimFloat(CtxSite.lon))>>
           [] key = LonKey -> <<CvPrim(PrimFloat(CtxSite.lon))>>
           [] key = LatKey -> <<CvPrim(PrimFloat(CtxSite.lat))>>
           [] key = NameKey -> <<CvPrim(PrimString(CtxRunName))>>
           [] OTHER -> <<>>

\* Context::get: Option<ContextValue>, <<>> is None.
ContextGet(extra, key) ==
    CASE key = SiteIdKey -> <<CvPrim(PrimString(IntToStr(CtxSite.id)))>>
      [] key = LngKey -> <<CvPrim(PrimFloat(CtxSite.lon))>>
      [] key = LonKey -> <<CvPrim(PrimFloat(CtxSite.lon))>>
      [] key = LatKey -> <<CvPrim(PrimFloat(CtxSite.lat))>>
      [] key = NameKey -> <<CvPrim(PrimString(CtxRunName))>>
      [] OTHER -> IF key \in DOMAIN extra THEN <<extra[key]>> ELSE <<>>

\* The keys and values run.extra is built from.  KeyZ is never bound.
KeyA == <<"a">>
KeyB == <<"b">>
KeyC == <<"c">>
KeyZ == <<"z">>
ExtraKeys == {KeyA, KeyB, KeyC}

CvAbsent == [kind |-> "Absent", frags |-> <<>>, prim |-> PrimInt(0)]

ExtraValues ==
    { CvPrim(PrimString(<<"x">>)), CvPrim(PrimInt(-12)), CvPrim(PrimBool(TRUE)),
      CvPrim(PrimFloat(3)),
      CvTemplateString(<<Template(KeyA)>>),
      CvTemplateString(<<Template(KeyB)>>),
      CvTemplateString(<<Literal(<<"-">>), Template(KeyC)>>),
      CvTemplateString(<<Template(KeyB), Literal(<<"-">>), Template(KeyC)>>),
      CvTemplateString(<<Literal(<<"x">>), Template(KeyZ)>>),
      CvTemplateString(<<Template(NameKey), Literal(<<"_">>), Template(LatKey)>>) }

BoundOnly(f) == [k \in {k \in DOMAIN f : f[k].kind # "Absent"} |-> f[k]]

\* The run.extra of tests::test_template_string.
KeyBuz == <<"b", "u", "z">>
ExampleExtra ==
    (Foo :> CvPrim(PrimString(Foo)))
    @@ (Bar :> CvPrim(PrimString(Bar)))
    @@ (Baz :> CvTemplateString(TemplateStringDeserialize(JsonString(
                 <<"$", "{", "f", "o", "o", "}", "-", "$", "{", "b", "a", "r", "}">>)).frags))
    @@ (KeyBuz :> CvTemplateString(TemplateStringDeserialize(JsonString(
                 <<"$", "{", "b", "a", "z", "}", "-", "b", "a", "z", "-",
                   "$", "{", "b", "a", "z", "}">>)).frags))

Extras ==
    {ExampleExtra} \cup {BoundOnly(f) : f \in [ExtraKeys -> ExtraValues \cup {CvAbsent}]}

RetOk(p) == [res |-> "Ok", prim |-> p, key |-> <<>>]
RetInterpolation(k) == [res |-> "Interpolation", prim |-> PrimInt(0), key |-> k]
RetStackOverflow == [res |-> "StackOverflow", prim |-> PrimInt(0), key |-> <<>>]

\* One active call of interpolate: its fragments, the index of the fragment
\* the loop is at, and the local string s.
Frame(frags) == [frags |-> frags, pos |-> 1, s |-> <<>>]

TopFrame == ipStack[Len(ipStack)]
AtFragment == ipStack # <<>> /\ TopFrame.pos <= Len(TopFrame.frags)
CurrentFragment == TopFrame.frags[TopFrame.pos]

\* Mutant of PushStr: the text goes in front of the string.
PushStrFront(frame, text) == [frame EXCEPT !.s = text \o @, !.pos = @ + 1]

\* s.push_str(text), and on to the next fragment.
PushStr(frame, text) == [frame EXCEPT !.s = @ \o text, !.pos = @ + 1]

ReplaceTop(frame) == [ipStack EXCEPT ![Len(ipStack)] = frame]

\* ctx.run.extra.get(root).to_prim(ctx): a Prim is cloned, a TemplateString
\* is interpolated.
ToPrim(extra, root) ==
    /\ ipRoot = <<>>
    /\ root \in DOMAIN extra
    /\ ipExtra' = extra
    /\ ipRoot' = <<root>>
    /\ IF extra[root].kind = "Prim"
       THEN ipRet' = RetOk(extra[root].prim) /\ ipStack' = <<>>
       ELSE ipRet' = <<>> /\ ipStack' = <<Frame(extra[root].frags)>>
    /\ UNCHANGED nonIpVars
    /\ UNCHANGED nonExtVars

\* The Literal arm of the loop.
InterpolateLiteral ==
    /\ AtFragment
    /\ CurrentFragment.f = "Literal"
    /\ ipStack' = ReplaceTop(PushStr(TopFrame, CurrentFragment.s))
    /\ UNCHANGED <<ipExtra, ipRoot, ipRet>>
    /\ UNCHANGED nonIpVars
    /\ UNCHANGED nonExtVars

\* Mutant of InterpolateMissing: an unbound key contributes nothing.
InterpolateMissingSkips ==
    /\ AtFragment
    /\ CurrentFragment.f = "Template"
    /\ ContextGet(ipExtra, CurrentFragment.s) = <<>>
    /\ ipStack' = ReplaceTop(PushStr(TopFrame, <<>>))
    /\ UNCHANGED <<ipExtra, ipRoot, ipRet>>
    /\ UNCHANGED nonIpVars
    /\ UNCHANGED nonExtVars

\* The Template arm when ctx.get(k) is None: `?` returns the error through
\* every active call.
InterpolateMissing ==
    /\ AtFragment
    /\ CurrentFragment.f = "Template"
    /\ ContextGet(ipExtra, CurrentFragment.s) = <<>>
    /\ ipRet' = RetInterpolation(CurrentFragment.s)
    /\ ipStack' = <<>>
    /\ UNCHANGED <<ipExtra, ipRoot>>
    /\ UNCHANGED nonIpVars
    /\ UNCHANGED nonExtVars

\* The Template arm when the key is bound to a Prim.
InterpolatePrim ==
    /\ AtFragment
    /\ CurrentFragment.f = "Template"
    /\ ContextGet(ipExtra, CurrentFragment.s) # <<>>
    /\ ContextGet(ipExtra, CurrentFragment.s)[1].kind = "Prim"
    /\ ipStack' = ReplaceTop(PushStr(TopFrame,
                       PrimAsString(ContextGet(ipExtra, CurrentFragment.s)[1].prim)))
    /\ UNCHANGED <<ipExtra, ipRoot, ipRet>>
    /\ UNCHANGED nonIpVars
    /\ UNCHANGED nonExtVars

\* The Template arm when the key is bound to a TemplateString: to_prim calls
\* interpolate on it.  Nothing is looked at but the value: the call is made
\* whatever calls are active.
InterpolateCall ==
    /\ AtFragment
    /\ CurrentFragment.f = "Template"
    /\ ContextGet(ipExtra, CurrentFragment.s) # <<>>
    /\ ContextGet(ipExtra, CurrentFragment.s)[1].kind = "TemplateString"
    /\ Len(ipStack) < MaxDepth
    /\ ipStack' = Append(ipStack, Frame(ContextGet(ipExtra, CurrentFragment.s)[1].frags))
    /\ UNCHANGED <<ipExtra, ipRoot, ipRet>>
    /\ UNCHANGED nonIpVars
    /\ UNCHANGED nonExtVars

\* The same call when the stack is full: the thread overflows its stack and
\* the process is aborted.
InterpolateOverflow ==
    /\ AtFragment
    /\ CurrentFragment.f = "Template"
    /\ ContextGet(ipExtra, CurrentFragment.s) # <<>>
    /\ ContextGet(ipExtra, CurrentFragment.s)[1].kind = "TemplateString"
    /\ Len(ipStack) >= MaxDepth
    /\ ipRet' = RetStackOverflow
    /\ ipStack' = <<>>
    /\ UNCHANGED <<ipExtra, ipRoot>>
    /\ UNCHANGED nonIpVars
    /\ UNCHANGED nonExtVars

\* Ok(s): the caller pushes the string, the outermost call gives the result
\* of to_prim.
InterpolateReturn ==
    /\ ipStack # <<>>
    /\ ~AtFragment
    /\ IF Len(ipStack) = 1
       THEN /\ ipRet' = RetOk(PrimString(TopFrame.s))
            /\ ipStack' = <<>>
       ELSE /\ ipStack' = [SubSeq(ipStack, 1, Len(ipStack) - 1)
                              EXCEPT ![Len(ipStack) - 1] =
                                 PushStr(ipStack[Len(ipStack) - 1],
                                         PrimAsString(PrimString(TopFrame.s)))]
            /\ UNCHANGED ipRet
    /\ UNCHANGED <<ipExtra, ipRoot>>
    /\ UNCHANGED nonIpVars
    /\ UNCHANGED nonExtVars

IpNext ==
    \/ ipRoot = <<>> /\ \E extra \in Extras : \E root \in DOMAIN extra : ToPrim(extra, root)
    \/ InterpolateLiteral
    \/ InterpolateMissing
    \/ InterpolatePrim
    \/ InterpolateCall
    \/ InterpolateOverflow
    \/ InterpolateReturn

IpSpecInit == PipeIdle /\ GenIdle /\ RegInit /\ CfgInit /\ ExtIdle

IpSpec == IpSpecInit /\ [][IpNext]_vars

(***************************************************************************)
(* Interpolation properties.                                               *)
(***************************************************************************)
\* The key is a built-in or a key of run.extra.
Bound(extra, key) ==
    key \in {SiteIdKey, LngKey, LonKey, LatKey, NameKey} \cup DOMAIN extra

\* The display string of a bound value, as the specification defines it:
\* the concatenation, fragment by fragment, of a literal's text and of the
\* display string of what a placeholder's key is bound to.  `fuel` bounds the
\* nesting; the result is "Ok" with the text, "Interpolation" with the first
\* unbound key met, or "Unbounded".
RECURSIVE Display(_, _, _)
Display(extra, frags, fuel) ==
    IF frags = <<>> THEN [res |-> "Ok", s |-> <<>>, key |-> <<>>]
    ELSE LET h == Head(frags)
             first ==
                IF h.f = "Literal" THEN [res |-> "Ok", s |-> h.s, key |-> <<>>]
                ELSE IF ~Bound(extra, h.s) THEN [res |-> "Interpolation", s |-> <<>>, key |-> h.s]
                ELSE LET v == ContextGet(extra, h.s)[1]
                     IN  IF v.kind = "Prim"
                         THEN [res |-> "Ok", s |-> PrimAsString(v.prim), key |-> <<>>]
                         ELSE IF fuel = 0 THEN [res |-> "Unbounded", s |-> <<>>, key |-> <<>>]
                         ELSE Display(extra, v.frags, fuel - 1)
         IN  IF first.res # "Ok" THEN first
             ELSE LET rest == Display(extra, Tail(frags), fuel)
                  IN  IF rest.res # "Ok" THEN rest
                      ELSE [res |-> "Ok", s |-> first.s \o rest.s, key |-> <<>>]

RootValue == ipExtra[ipRoot[1]]
RootDisplay == Display(ipExtra, RootValue.frags, MaxDepth - 1)

FooBarBazFooBar ==
    <<"f", "o", "o", "-", "b", "a", "r", "-", "b", "a", "z", "-", "f", "o", "o", "-", "b", "a", "r">>

\* C18: interpolation returns the concatenation, in fragment order, of the
\* literals and of the display strings of the values bound to the
\* placeholders, bound template strings being interpolated in turn; with
\* foo, bar, baz = ${foo}-${bar}, buz = ${baz}-baz-${baz} the value of buz is
\* foo-bar-baz-foo-bar.
C18_Interpolation ==
    ipRet # <<>> /\ RootValue.kind = "TemplateString" =>
       /\ ipRet.res = "Ok" =>
             /\ RootDisplay.res = "Ok"
             /\ ipRet.prim = PrimString(RootDisplay.s)
       /\ RootDisplay.res = "Ok" => ipRet = RetOk(PrimString(RootDisplay.s))
       /\ ipExtra = ExampleExtra /\ ipRoot = <<KeyBuz>> =>
             ipRet = RetOk(PrimString(FooBarBazFooBar))

\* The value of buz in the example has been computed.
C18_Witness ==
    /\ ipExtra = ExampleExtra
    /\ ipRoot = <<KeyBuz>>
    /\ ipRet # <<>>
    /\ ipRet.res = "Ok"
    /\ ipRet.prim.s = FooBarBazFooBar

\* C19: when the resolution reaches, at any depth, a placeholder whose key
\* is neither a built-in nor a key of run.extra, the result is
\* Interpolation(that key) and carries no string; Interpolation(key) is
\* returned for no other reason.
C19_MissingKey ==
    ipRet # <<>> /\ RootValue.kind = "TemplateString" =>
       /\ RootDisplay.res = "Interpolation" => ipRet = RetInterpolation(RootDisplay.key)
       /\ ipRet.res = "Interpolation" =>
             /\ ~Bound(ipExtra, ipRet.key)
             /\ ipRet.prim = PrimInt(0)
             /\ RootDisplay = [res |-> "Interpolation", s |-> <<>>, key |-> ipRet.key]

\* The unbound key was met one level down, after the outer call had already
\* collected a literal.
C19_Witness ==
    /\ ipRet # <<>>
    /\ ipRet = RetInterpolation(KeyZ)
    /\ ipRoot = <<KeyA>>
    /\ ipExtra[KeyA] = CvTemplateString(<<Literal(<<"-">>), Template(KeyC)>>)
    /\ ipExtra[KeyC] = CvTemplateString(<<Literal(<<"x">>), Template(KeyZ)>>)

\* C20: the evaluation of a value ends with a string or with
\* Interpolation(key), also when a placeholder chain comes back to a key
\* that is being evaluated.
C20_RecursionDetected ==
    ipRet # <<>> => ipRet.res \in {"Ok", "Interpolation"}

(***************************************************************************)
(* Scheduling: every thread (producer, each worker, the thread running     *)
(* conduct, the sink) is an OS thread that keeps running while it can.     *)
(***************************************************************************)
PipeFairness ==
    /\ WF_vars(ProducerSend \/ ProducerClose)
    /\ \A w \in Workers : WF_vars(Worker(w))
    /\ WF_vars(SyncConduct \/ ConductSpawn \/ ConductJoin \/ ConductUnwind \/ DropTxOut)
    /\ WF_vars(SinkRecv \/ SinkExit)

\* The fair specification takes as input every prefix of one sequence of
\* MaxFairItems contexts that alternates between the two runs, the smallest
\* channels (pipeline_buffer_size 1), where a send blocks soonest, and a
\* template registered for every run; work units still fail at render and at
\* write.
FairItems == [i \in 1..MaxFairItems |-> IF i % 2 = 1 THEN <<0, "r1">> ELSE <<1, "r2">>]

FairInit ==
    Init /\ IsPrefix(prodItems, FairItems) /\ bufSize = 1 /\ filenames = RunNames

FairSpec == FairInit /\ [][Next]_vars /\ PipeFairness

(***************************************************************************)
(* Pipeline properties.                                                    *)
(***************************************************************************)
Ended(w) == wpc[w] \in {"done", "panicked", "err"}
AnyWorkerFailed == \E w \in Workers : wpc[w] \in {"panicked", "err"}
PipeFailed ==
    AnyWorkerFailed \/ conductPc \in {"unwinding", "panicked", "returned_err"}

RECURSIVE HeldUpTo(_)
HeldUpTo(n) ==
    IF n = 0 THEN <<>>
    ELSE HeldUpTo(n - 1) \o (IF wctx[n] = None THEN <<>> ELSE <<wctx[n]>>)

\* Everything that was sent and is still somewhere between producer and sink.
InFlight == chIn \o HeldUpTo(MaxWorkers) \o chOut \o received
Sent == SubSeq(prodItems, 1, prodIdx)

\* C1: with any number of workers, as long as no work unit fails every
\* context sent is in exactly one place (input channel, a worker, output
\* channel, sink), and when the sink has seen rx_out closed it has received
\* exactly the multiset of (site.id, run.name) that was sent: nothing lost,
\* nothing duplicated.
C1_NoLossNoDuplicate ==
    /\ ~AnyWorkerFailed => BagOfSeq(InFlight) = BagOfSeq(Sent)
    /\ (sinkPc = "done" /\ ~PipeFailed) =>
          /\ Len(received) = Len(prodItems)
          /\ BagOfSeq(received) = BagOfSeq(prodItems)

C1_Witness ==
    /\ sinkPc = "done"
    /\ ~PipeFailed
    /\ workers >= 2
    /\ Len(received) >= 3
    /\ received # prodItems

\* C2: conduct returns Ok only after every worker ended and was joined,
\* tx_out is closed only after conduct returned, the sink exits only on a
\* closed and drained rx_out, and under fair scheduling once tx_in is closed
\* the run either fails or every worker exits, conduct returns, tx_out is
\* closed and the sink exits.
PipeQuiescent ==
    /\ \A w \in 1..workers : wpc[w] = "done"
    /\ conductPc = "returned_ok"
    /\ txOutClosed
    /\ sinkPc = "done"

C2_ShutdownPropagates ==
    /\ [](conductPc = "returned_ok" =>
            /\ \A w \in 1..workers : wpc[w] = "done"
            /\ chIn = <<>> /\ txInClosed
            /\ ~IsSync => joined = workers)
    /\ [](txOutClosed => conductPc \in {"returned_ok", "returned_err"})
    /\ [](sinkPc = "done" => txOutClosed /\ chOut = <<>>)
    /\ (txInClosed ~> (PipeFailed \/ PipeQuiescent))

C2_Witness ==
    /\ PipeQuiescent
    /\ ~PipeFailed
    /\ workers >= 2
    /\ Len(received) >= 2

SoilIdKey == <<"s", "o", "i", "l", "_", "i", "d">>

\* The keys and values run.extra is built from here: two of the keys are
\* also names of built-ins.
CtxExtraKeys == {KeyA, LatKey, SoilIdKey, NameKey}

CtxExtraValues ==
    { CvPrim(PrimString(<<"x">>)), CvPrim(PrimInt(-12)),
      CvTemplateString(<<Template(KeyA)>>),
      CvTemplateString(<<Template(NameKey), Literal(<<"_">>), Template(LatKey)>>),
      CvTemplateString(<<Literal(<<"x">>), Template(KeyZ)>>) }

CtxExtras == {BoundOnly(f) : f \in [CtxExtraKeys -> CtxExtraValues \cup {CvAbsent}]}

\* The keys Context::get is asked for.
CtxAskedKeys == {SiteIdKey, LngKey, LonKey, LatKey, NameKey, SoilIdKey, KeyA, KeyZ}

\* TemplateString::interpolate with ContextValue::to_prim inlined: the loop
\* over the fragments, s being the string built so far and depth the number
\* of calls of interpolate that are active.
RECURSIVE TemplateStringInterpolate(_, _, _, _)
TemplateStringInterpolate(extra, frags, s, depth) ==
    IF frags = <<>> THEN RetOk(PrimString(s))
    ELSE LET h == Head(frags)
         IN  IF h.f = "Literal"
             THEN TemplateStringInterpolate(extra, Tail(frags), s \o h.s, depth)
             ELSE LET value == ContextGet(extra, h.s)
                  IN  IF value = <<>> THEN RetInterpolation(h.s)
                      ELSE LET p == IF value[1].kind = "Prim" THEN RetOk(value[1].prim)
                                    ELSE IF depth >= MaxDepth THEN RetStackOverflow
                                    ELSE TemplateStringInterpolate(extra, value[1].frags,
                                                                   <<>>, depth + 1)
                           IN  IF p.res # "Ok" THEN p
                               ELSE TemplateStringInterpolate(extra, Tail(frags),
                                        s \o PrimAsString(p.prim), depth)

\* ContextValue::to_prim
ContextValueToPrim(extra, v) ==
    IF v.kind = "Prim" THEN RetOk(v.prim)
    ELSE TemplateStringInterpolate(extra, v.frags, <<>>, 1)

\* tera::Context::insert: the entry of the key is set, an older one is replaced.
TeraInsert(ctx, k, v) == (k :> v) @@ ctx

\* The six inserts Context::tera starts with.
TeraBuiltins ==
    TeraInsert(TeraInsert(TeraInsert(TeraInsert(TeraInsert(TeraInsert(<<>>,
        SiteIdKey, PrimInt(CtxSite.id)),
        SoilIdKey, PrimInt(CtxSite.id)),
        LngKey, PrimFloat(CtxSite.lon)),
        LonKey, PrimFloat(CtxSite.lon)),
        LatKey, PrimFloat(CtxSite.lat)),
        NameKey, PrimString(CtxRunName))

\* The loop of Context::tera over run.extra when every to_prim is Ok.
RECURSIVE TeraInsertExtra(_, _, _)
TeraInsertExtra(ctx, extra, keys) ==
    IF keys = {} THEN ctx
    ELSE LET k == CHOOSE k \in keys : TRUE
         IN  TeraInsertExtra(TeraInsert(ctx, k, ContextValueToPrim(extra, extra[k]).prim),
                             extra, keys \ {k})

CtxGetCall(key) == [op |-> "get", key |-> key]
CtxTeraCall == [op |-> "tera", key |-> <<>>]

\* A call of Context::get.
CtxGet(extra, key) ==
    /\ ctxCall = <<>>
    /\ ctxExtra' = extra
    /\ ctxCall' = <<CtxGetCall(key)>>
    /\ ctxRet' = <<ContextGet(extra, key)>>
    /\ UNCHANGED nonCtxVars

\* A call of Context::tera.  HashMap iteration takes the keys in any order,
\* and the first to_prim that fails ends the call with its error.
CtxTera(extra) ==
    /\ ctxCall = <<>>
    /\ ctxExtra' = extra
    /\ ctxCall' = <<CtxTeraCall>>
    /\ LET failing == {k \in DOMAIN extra : ContextValueToPrim(extra, extra[k]).res # "Ok"}
       IN  IF failing = {}
           THEN ctxRet' = <<[res |-> "Ok",
                             map |-> TeraInsertExtra(TeraBuiltins, extra, DOMAIN extra),
                             key |-> <<>>]>>
           ELSE \E k \in failing :
                   ctxRet' = <<[res |-> ContextValueToPrim(extra, extra[k]).res,
                                map |-> <<>>,
                                key |-> ContextValueToPrim(extra, extra[k]).key]>>
    /\ UNCHANGED nonCtxVars

CtxNext ==
    \/ ctxCall = <<>> /\ \E extra \in CtxExtras : \E key \in CtxAskedKeys : CtxGet(extra, key)
    \/ ctxCall = <<>> /\ \E extra \in CtxExtras : CtxTera(extra)

CtxSpecInit == PipeIdle /\ GenIdle /\ RegInit /\ CfgInit /\ ExtIdle

CtxSpec == CtxSpecInit /\ [][CtxNext]_vars

(***************************************************************************)
(* Context access properties.                                              *)
(***************************************************************************)
GetBuiltinKeys == {SiteIdKey, LngKey, LonKey, LatKey, NameKey}

\* What the specification gives for a built-in key of Context.get.
GetBuiltinValue(key) ==
    CASE key = SiteIdKey -> CvPrim(PrimString(<<"7">>))
      [] key = NameKey -> CvPrim(PrimString(<<"r", "1">>))
      [] key = LatKey -> CvPrim(PrimFloat(-30))
      [] OTHER -> CvPrim(PrimFloat(31))

GetCalled == ctxCall # <<>> /\ ctxCall[1].op = "get"
TeraCalled == ctxCall # <<>> /\ ctxCall[1].op = "tera"

\* C21: Context.get(key) returns the built-in Prim for site_id, lng, lon,
\* lat and name whatever run.extra holds, run.extra[key] for any other key
\* of run.extra, and None otherwise.
C21_GetPrecedence ==
    GetCalled =>
       LET key == ctxCall[1].key
       IN  /\ key \in GetBuiltinKeys => ctxRet = <<<<GetBuiltinValue(key)>>>>
           /\ key \notin GetBuiltinKeys /\ key \in DOMAIN ctxExtra =>
                 ctxRet = <<<<ctxExtra[key]>>>>
           /\ key \notin GetBuiltinKeys /\ key \notin DOMAIN ctxExtra =>
                 ctxRet = <<<<>>>>

\* get("lat") was answered with the site's latitude although run.extra has
\* an entry called lat.
C21_Witness ==
    /\ GetCalled
    /\ ctxCall[1].key = LatKey
    /\ LatKey \in DOMAIN ctxExtra
    /\ ctxExtra[LatKey] = CvPrim(PrimInt(-12))
    /\ ctxRet = <<<<CvPrim(PrimFloat(-30))>>>>

TeraBuiltinKeys == {SiteIdKey, SoilIdKey, LngKey, LonKey, LatKey, NameKey}

\* What the specification gives for a built-in key of the variable map.
TeraBuiltinValue(key) ==
    CASE key \in {SiteIdKey, SoilIdKey} -> PrimInt(7)
      [] key = NameKey -> PrimString(<<"r", "1">>)
      [] key = LatKey -> PrimFloat(-30)
      [] OTHER -> PrimFloat(31)

\* C22: in the variable map handed to the template engine every built-in
\* key (site_id, soil_id, lng, lon, lat, name) holds the built-in value even
\* when run.extra has an entry of that name, and every other key of
\* run.extra holds its entry interpolated to a primitive.
C22_BuiltinsInVariableMap ==
    TeraCalled /\ ctxRet[1].res = "Ok" =>
       /\ \A key \in TeraBuiltinKeys : ctxRet[1].map[key] = TeraBuiltinValue(key)
       /\ \A key \in DOMAIN ctxExtra \ TeraBuiltinKeys :
             /\ key \in DOMAIN ctxRet[1].map
             /\ ctxRet[1].map[key] =
                   IF ctxExtra[key].kind = "Prim" THEN ctxExtra[key].prim
                   ELSE PrimString(Display(ctxExtra, ctxExtra[key].frags, MaxDepth - 1).s)

(***************************************************************************)
(* Pipeline construction (processing/pipeline/mod.rs, threaded.rs):        *)
(* create_pipeline_from_config and ThreadedPipelineBuilder::build.  A      *)
(* pipeline that was built is then run: from there on the steps are those  *)
(* of the pipeline above.                                                  *)
(***************************************************************************)
\* num_cpus::get() is at least 1.
CpuCounts == 1..MaxWorkers
WorkerArgs == 0..MaxWorkers

SelSync == [kind |-> "SYNC", workers |-> 1]
SelThreaded(n) == [kind |-> "THREADED", workers |-> n]
SelNotEnoughWorkers == [kind |-> "NotEnoughWorkersError", workers |-> 0]

\* Mutant of ThreadedPipelineBuilder::build: one worker is accepted.
ThreadedBuildFromOne(n) ==
    IF n < 1 THEN SelNotEnoughWorkers ELSE SelThreaded(n)

\* ThreadedPipelineBuilder::build
ThreadedBuild(n) ==
    IF n <= 1 THEN SelNotEnoughWorkers ELSE SelThreaded(n)

\* create_pipeline_from_config: the first match gives worker_count, the
\* second one is on `workers`.
CreatePipelineFromConfig(n, cpus) ==
    LET worker_count == IF n = 0 THEN cpus ELSE n
    IN  IF n = 1 THEN SelSync ELSE ThreadedBuild(worker_count)

\* The pipeline `built` is put between the channels of the driver.
InstallPipeline(built) ==
    IF built.kind = "NotEnoughWorkersError"
    THEN UNCHANGED pipeVars
    ELSE /\ prodItems' \in SeqsUpTo(Contexts, MaxFairItems)
         /\ workers' = built.workers
         /\ filenames' = RunNames
         /\ UNCHANGED <<prodIdx, txInClosed, chIn, chOut, bufSize, wpc, wctx, wdirerr,
                        conductPc, spawned, joined, txOutClosed, sinkPc, received>>

\* A call of create_pipeline_from_config on a machine with `cpus` logical CPUs.
SelCreate(n, cpus) ==
    /\ selArgs = <<>>
    /\ selArgs' = <<[fn |-> "create_pipeline_from_config", workers |-> n, cpus |-> cpus]>>
    /\ selRet' = <<CreatePipelineFromConfig(n, cpus)>>
    /\ InstallPipeline(CreatePipelineFromConfig(n, cpus))
    /\ UNCHANGED nonPipeSelVars

\* A call of ThreadedPipeline::builder(processor, n).build().
SelBuild(n) ==
    /\ selArgs = <<>>
    /\ selArgs' = <<[fn |-> "build", workers |-> n, cpus |-> 1]>>
    /\ selRet' = <<ThreadedBuild(n)>>
    /\ InstallPipeline(ThreadedBuild(n))
    /\ UNCHANGED nonPipeSelVars

SelBuilt == selRet # <<>> /\ selRet[1].kind # "NotEnoughWorkersError"

SelNext ==
    \/ selArgs = <<>> /\ \E n \in WorkerArgs : \E cpus \in CpuCounts : SelCreate(n, cpus)
    \/ selArgs = <<>> /\ \E n \in WorkerArgs : SelBuild(n)
    \/ SelBuilt /\ PipeNext

SelSpecInit == PipeIdle /\ GenIdle /\ RegInit /\ CfgInit /\ ExtIdle

SelSpec == SelSpecInit /\ [][SelNext]_vars

(***************************************************************************)
(* Pipeline construction properties.                                       *)
(***************************************************************************)
SelCalled(fn) == selArgs # <<>> /\ selArgs[1].fn = fn

\* C23: create_pipeline_from_config selects the sync pipeline exactly when
\* workers = 1, and otherwise a threaded pipeline whose worker count is
\* workers when workers >= 2 and the number of logical CPUs when workers = 0.
C23_PipelineSelection ==
    SelCalled("create_pipeline_from_config") =>
       /\ selRet[1].kind = "SYNC" <=> selArgs[1].workers = 1
       /\ selArgs[1].workers >= 2 =>
             selRet[1] = [kind |-> "THREADED", workers |-> selArgs[1].workers]
       /\ selArgs[1].workers = 0 =>
             selRet[1] = [kind |-> "THREADED", workers |-> selArgs[1].cpus]

\* The threads conduct has started, and the threads that hold a context.
Started == {w \in Workers : wpc[w] # "unspawned"}

\* C24: building a threaded pipeline fails with NotEnoughWorkers iff the
\* worker count is 0 or 1; for a count of 2 or more it succeeds, and conduct
\* starts exactly that many worker threads (never more, and all of them
\* before it joins any), every one of them on the same two channels.
C24_ThreadedBuild ==
    SelCalled("build") =>
       /\ selRet[1].kind = "NotEnoughWorkersError" <=> selArgs[1].workers \in {0, 1}
       /\ selArgs[1].workers >= 2 =>
             /\ selRet[1] = [kind |-> "THREADED", workers |-> selArgs[1].workers]
             /\ workers = selArgs[1].workers
             /\ Started = 1..spawned
             /\ spawned <= selArgs[1].workers
             /\ conductPc \notin {"idle", "spawning"} => spawned = selArgs[1].workers

\* A pipeline built with two workers has both threads running, each holding
\* a context it took from the one input channel.
C24_Witness ==
    /\ SelCalled("build")
    /\ selArgs[1].workers = 2
    /\ selRet[1].kind = "THREADED"
    /\ spawned = 2
    /\ wctx[1] # None
    /\ wctx[2] # None

(***************************************************************************)
(* A receiver of tx_out that goes away while the pipeline runs (the sink   *)
(* ends before rx_out is closed): the contexts still in the channel are    *)
(* dropped with it, and a send, waiting or new, returns SendError.         *)
(***************************************************************************)
SinkDrop ==
    /\ sinkPc = "draining"
    /\ sinkPc' = "dropped"
    /\ chOut' = <<>>
    /\ UNCHANGED nonPipeVars
    /\ UNCHANGED <<prodItems, prodIdx, txInClosed, chIn, bufSize, workers, filenames,
                   wpc, wctx, wdirerr, conductPc, spawned, joined, txOutClosed, received>>

\* try_for_each stops at the Err of tx.send and process returns it boxed.
WorkerSendDisconnected(w) ==
    /\ wpc[w] = "send"
    /\ sinkPc = "dropped"
    /\ wpc' = [wpc EXCEPT ![w] = WorkerEnd("err")]
    /\ conductPc' = ConductAfter("err")
    /\ UNCHANGED nonPipeVars
    /\ UNCHANGED <<prodItems, prodIdx, txInClosed, chIn, chOut, bufSize, workers,
                   filenames, wctx, wdirerr, spawned, joined, txOutClosed, sinkPc,
                   received>>

DropNext ==
    \/ PipeNext
    \/ SinkDrop
    \/ \E w \in Workers : WorkerSendDisconnected(w)

\* Inputs of at most MaxFairItems contexts and the smallest channels.
DropInit == Init /\ Len(prodItems) <= MaxFairItems /\ bufSize = 1

DropSpec == DropInit /\ [][DropNext]_vars

(***************************************************************************)
(* Work unit properties.                                                   *)
(***************************************************************************)
\* The steps of a work unit in the order the claim gives them, and the ways
\* a worker ends.
UnitSteps ==
    { <<"recv", "mkdir">>, <<"mkdir", "lookup">>, <<"lookup", "render">>,
      <<"render", "write">>, <<"write", "send">>, <<"send", "recv">> }

EndSteps ==
    { <<"recv", "done">>, <<"lookup", "panicked">>, <<"render", "panicked">>,
      <<"write", "panicked">>, <<"send", "panicked">>, <<"send", "err">> }

Moved(w) == wpc'[w] # wpc[w]

\* C25: for each context a worker creates the directory, looks up the
\* template basename, renders, writes the file and sends the context, in
\* this order; a context is put on tx_out only by the worker that holds it
\* and has written its file, and a worker takes a context from rx_in only
\* when it holds none, the one before having been sent.
C25_WorkUnitOrder ==
    [][\A w \in Workers :
          /\ Moved(w) /\ wpc[w] # "unspawned" =>
                <<wpc[w], wpc'[w]>> \in UnitSteps \cup EndSteps
          /\ wpc'[w] = "send" /\ Moved(w) => wpc[w] = "write"
          /\ wctx'[w] # wctx[w] /\ wctx'[w] # None =>
                /\ wctx[w] = None
                /\ wpc[w] = "recv"
                /\ chIn # <<>>
                /\ wctx'[w] = Head(chIn)
          /\ Len(chOut') > Len(chOut) =>
                \E v \in Workers :
                   /\ wpc[v] = "send"
                   /\ wpc'[v] = "recv"
                   /\ chOut' = Append(chOut, wctx[v])]_vars

\* A worker is at the directory of its second context while the first one
\* it sent has reached the sink.
C25_Witness ==
    /\ IsSync
    /\ wpc[1] = "mkdir"
    /\ Len(received) = 1
    /\ wctx[1] # None
    /\ wctx[1] = prodItems[2]

\* C26: when the receiver of tx_out is gone, the send of a worker fails and
\* process returns the error: the sync conduct returns that Err, a threaded
\* worker ends with a panic, and conduct does not return Ok once a worker
\* has failed.
C26_ReceiverGone ==
    /\ [](conductPc = "returned_ok" => \A w \in Workers : wpc[w] \notin {"panicked", "err"})
    /\ [](IsSync /\ wpc[1] = "err" => conductPc = "returned_err")
    /\ [](~IsSync => \A w \in Workers : wpc[w] # "err")
    /\ [][\A w \in Workers :
             wpc[w] = "send" /\ sinkPc = "dropped" /\ Moved(w) =>
                /\ wpc'[w] = IF IsSync THEN "err" ELSE "panicked"
                /\ chOut' = chOut
                /\ IsSync => conductPc' = "returned_err"]_vars

\* A threaded worker has panicked on its send and conduct has ended in the
\* panic of the join.
C26_Witness ==
    /\ ~IsSync
    /\ sinkPc = "dropped"
    /\ conductPc = "panicked"
    /\ \E w \in Workers : wpc[w] = "panicked" /\ wctx[w] # None /\ received = <<>>
    /\ filenames = RunNames

\* C27: a worker lets go of the context it holds only by putting it on
\* tx_out; a worker that holds a context is inside its work unit or has
\* ended with a fatal failure, a worker that waits for input or has ended
\* normally holds none.
C27_NoSilentDrop ==
    /\ [](\A w \in Workers :
             /\ wctx[w] # None =>
                   wpc[w] \in {"mkdir", "lookup", "render", "write", "send",
                               "panicked", "err"}
             /\ wpc[w] \in {"unspawned", "recv", "done"} => wctx[w] = None)
    /\ [][\A w \in Workers :
             wctx[w] # None /\ wctx'[w] # wctx[w] =>
                /\ wctx'[w] = None
                /\ sinkPc # "dropped"
                /\ chOut' = Append(chOut, wctx[w])]_vars

\* One worker ended on a context without a registered template, the other
\* forwarded its context.
C27_Witness ==
    /\ ~IsSync
    /\ \E w \in Workers :
          /\ wpc[w] = "panicked"
          /\ wctx[w] # None
          /\ wctx[w][2] \notin filenames
    /\ Len(received) = 1
    /\ received[1][2] \in filenames

\* C28: a failure to create the output directory is only logged: the worker
\* goes on to the template lookup with the same context, render and write
\* are attempted, and a worker ends with a failure only at the template
\* lookup, render, write or send.
C28_MkdirNotFatal ==
    /\ [][\A w \in Workers :
             /\ wpc[w] = "mkdir" /\ Moved(w) =>
                   wpc'[w] = "lookup" /\ wctx'[w] = wctx[w]
             /\ wdirerr[w] /\ Moved(w) /\ wpc[w] \in {"lookup", "render", "write"} =>
                   /\ <<wpc[w], wpc'[w]>> \in UnitSteps \cup EndSteps
                   /\ wdirerr'[w]
             /\ Moved(w) /\ wpc'[w] \in {"panicked", "err"} =>
                   wpc[w] \in {"lookup", "render", "write", "send"}]_vars
    /\ [](\A w \in Workers : wdirerr[w] => wpc[w] # "mkdir")

\* The context whose directory could not be created was rendered and
\* written, and its worker is at the send.
C28_Witness ==
    /\ \E w \in Workers : wdirerr[w] /\ wpc[w] = "send"
    /\ filenames = RunNames

(***************************************************************************)
(* VectorSiteGenerator (sites/gen/vector.rs).  A dataset is the sequence   *)
(* of its layers, a layer the sequence of its features.                    *)
(***************************************************************************)
\* A feature: its geometry type ("None" when it has no geometry), what the
\* field named site_id_key holds, and the first coordinate pair.
Feature(geom, idkind, id) ==
    [geom |-> geom, idkind |-> idkind, id |-> id, lon |-> 10 + id, lat |-> 20 + id]

FeatureValues ==
    { Feature("Point", "Integer", 1), Feature("Point", "Integer", 2),
      Feature("Polygon", "Integer", 3), Feature("None", "Integer", 4),
      Feature("Point", "Integer64", 5), Feature("Point", "Null", 6),
      Feature("Point", "Missing", 7) }

\* The datasets: up to MaxFeatures features, cut into two layers at any
\* place, with or without an empty layer between the two.
VectorDatasets ==
    UNION { UNION { { <<SubSeq(fs, 1, cut), SubSeq(fs, cut + 1, Len(fs))>>,
                      <<SubSeq(fs, 1, cut), <<>>, SubSeq(fs, cut + 1, Len(fs))>> }
                    : cut \in 0..Len(fs) }
            : fs \in SeqsUpTo(FeatureValues, MaxFeatures) }

VecSite(f) == [id |-> f.id, lon |-> f.lon, lat |-> f.lat]

\* feature_to_site
FeatureToSite(f) ==
    IF f.geom = "None" THEN None
    ELSE IF f.geom # "Point" THEN None
    ELSE IF f.idkind = "Integer" THEN <<VecSite(f)>>
    ELSE None

\* VectorSiteGenerator::next, with the calls it makes of itself.  feat_iter
\* is the number of features the iterator of the current layer has given.
RECURSIVE VectorNext(_, _)
VectorNext(ds, g) ==
    IF g.feat_iter = <<>>
    THEN IF g.curr_layer < Len(ds)
         THEN VectorNext(ds, [g EXCEPT !.layer = <<g.curr_layer>>, !.feat_iter = <<0>>])
         ELSE [gen |-> [g EXCEPT !.layer = <<>>], ret |-> None]
    ELSE LET features == ds[g.layer[1] + 1]
             given == g.feat_iter[1]
         IN  IF given < Len(features)
             THEN [gen |-> [g EXCEPT !.feat_iter = <<given + 1>>],
                   ret |-> FeatureToSite(features[given + 1])]
             ELSE VectorNext(ds, [g EXCEPT !.curr_layer = @ + 1, !.feat_iter = <<>>])

\* VectorSiteGenerator::new
VecNew(ds) ==
    /\ vecDs = <<>>
    /\ vecDs' = <<ds>>
    /\ vecGen' = <<[curr_layer |-> 0, layer |-> <<>>, feat_iter |-> <<>>]>>
    /\ vecOut' = <<>>
    /\ UNCHANGED nonVecVars

\* A call of next() by a consumer that stops at the first None, as a `for`
\* loop and ContextGenerator::next do.
VecCallNext ==
    /\ vecDs # <<>>
    /\ IF vecOut = <<>> THEN TRUE ELSE vecOut[Len(vecOut)] # None
    /\ vecGen' = <<VectorNext(vecDs[1], vecGen[1]).gen>>
    /\ vecOut' = Append(vecOut, VectorNext(vecDs[1], vecGen[1]).ret)
    /\ UNCHANGED vecDs
    /\ UNCHANGED nonVecVars

VecNext ==
    \/ vecDs = <<>> /\ \E ds \in VectorDatasets : VecNew(ds)
    \/ VecCallNext

VecSpecInit == PipeIdle /\ GenIdle /\ RegInit /\ CfgInit /\ ExtIdle

VecSpec == VecSpecInit /\ [][VecNext]_vars

(***************************************************************************)
(* Vector site generator properties.                                       *)
(***************************************************************************)
RECURSIVE Flatten(_)
Flatten(ss) == IF ss = <<>> THEN <<>> ELSE Head(ss) \o Flatten(Tail(ss))

\* A feature the specification accepts: a point whose id field is a 32-bit
\* integer.
Accepted(f) == f.geom = "Point" /\ f.idkind = "Integer"

RECURSIVE AcceptedSites(_)
AcceptedSites(fs) ==
    IF fs = <<>> THEN <<>>
    ELSE (IF Accepted(Head(fs)) THEN <<<<VecSite(Head(fs))>>>> ELSE <<>>)
         \o AcceptedSites(Tail(fs))

VecConsumerDone == vecOut # <<>> /\ vecOut[Len(vecOut)] = None

\* C29: the vector site generator skips a feature whose geometry is not a
\* point or whose id field is missing or not a 32-bit integer and goes on
\* with the features after it: a consumer that iterates until the first
\* None has received one site for every accepted feature of every layer, in
\* layer order and in feature order within a layer.
C29_SkipsAndContinues ==
    VecConsumerDone =>
       SubSeq(vecOut, 1, Len(vecOut) - 1) = AcceptedSites(Flatten(vecDs[1]))

(***************************************************************************)
(* RasterSiteGenerator (sites/gen/raster.rs).  A band has x_size columns   *)
(* and y_size rows and is stored in blocks of block_x_size by block_y_size *)
(* pixels.  read_block gives a whole block, row by row with block_x_size   *)
(* values to the row: in a block that reaches over the right or the bottom *)
(* edge of the band the places outside the band hold padding.              *)
(***************************************************************************)
\* The value of the pixel at (column, row): every pixel has a value of its
\* own, but for the pixels of a regular pattern, which hold `hole`.
PixelValue(band, col, row) ==
    IF (col + 2 * row) % 3 = 1 THEN band.hole ELSE 1 + col + row * band.x_size

\* What the places of a block outside the band may hold.
PadValues == {0, 99}

\* The bands: every size and block size up to the bounds, with or without a
\* nodata value (-1 when set), the pattern pixels holding 0 or -1.
Bands ==
    [x_size : 1..MaxBand, y_size : 1..MaxBand,
     block_x_size : 1..MaxBlock, block_y_size : 1..MaxBlock,
     no_data : {<<>>, <<-1>>}, hole : {0, -1}, pad : PadValues]

\* RasterBand::read_block((bx, by)).data()
ReadBlock(band, bx, by) ==
    [i \in 1..(band.block_x_size * band.block_y_size) |->
        LET col == bx * band.block_x_size + ((i - 1) % band.block_x_size)
            row == by * band.block_y_size + ((i - 1) \div band.block_x_size)
        IN  IF col < band.x_size /\ row < band.y_size
            THEN PixelValue(band, col, row)
            ELSE band.pad]

\* band.no_data_value().unwrap_or(0.0) as i32
NoDataValue(band) == IF band.no_data = <<>> THEN 0 ELSE band.no_data[1]

\* RasterSiteGenerator::load_next_block: what it returns and the fields after it.
LoadNextBlock(band, g) ==
    IF g.curr_block_y * band.block_y_size >= band.y_size
       \/ g.curr_block_x * band.block_x_size >= band.x_size
    THEN [ok |-> FALSE, gen |-> g]
    ELSE [ok |-> TRUE,
          gen |-> [g EXCEPT
                     !.buffer_x_size =
                         Min(band.block_x_size,
                             band.x_size - g.curr_block_x * band.block_x_size),
                     !.buffer_y_size =
                         Min(band.block_y_size,
                             band.y_size - g.curr_block_y * band.block_y_size),
                     !.buffer = <<ReadBlock(band, g.curr_block_x, g.curr_block_y)>>,
                     !.px_idx = 0]]

\* The site of a pixel: its id and the (x, y) the geotransform is applied to.
RasSite(id, x, y) == [id |-> id, x |-> x, y |-> y]

\* RasterSiteGenerator::next: the loop, one turn at a time.
RECURSIVE RasterNext(_, _)
RasterNext(band, g) ==
    IF g.buffer # <<>> /\ g.px_idx < g.buffer_x_size * g.buffer_y_size
    THEN LET x_offset == g.px_idx % g.buffer_x_size
             y_offset == g.px_idx \div g.buffer_x_size
             value == g.buffer[1][g.px_idx + 1]
             g1 == [g EXCEPT !.px_idx = @ + 1]
         IN  IF value = NoDataValue(band)
             THEN RasterNext(band, g1)
             ELSE [gen |-> g1,
                   ret |-> <<RasSite(value,
                                     g.curr_block_x * band.block_x_size + x_offset,
                                     g.curr_block_y * band.block_y_size + y_offset)>>]
    ELSE LET stepped == [g EXCEPT !.curr_block_x = @ + 1]
             g2 == IF stepped.curr_block_x * band.block_x_size >= band.x_size
                   THEN [stepped EXCEPT !.curr_block_x = 0, !.curr_block_y = @ + 1]
                   ELSE stepped
             loaded == LoadNextBlock(band, g2)
         IN  IF ~loaded.ok THEN [gen |-> loaded.gen, ret |-> None]
             ELSE RasterNext(band, loaded.gen)

\* RasterSiteGenerator::new, which loads the first block.
RasNew(band) ==
    /\ rasBand = <<>>
    /\ rasBand' = <<band>>
    /\ rasGen' = <<LoadNextBlock(band,
                      [curr_block_x |-> 0, curr_block_y |-> 0, buffer |-> <<>>,
                       buffer_x_size |-> 0, buffer_y_size |-> 0, px_idx |-> 0]).gen>>
    /\ rasOut' = <<>>
    /\ UNCHANGED nonRasVars

\* A call of next() by a consumer that stops at the first None.
RasCallNext ==
    /\ rasBand # <<>>
    /\ IF rasOut = <<>> THEN TRUE ELSE rasOut[Len(rasOut)] # None
    /\ rasGen' = <<RasterNext(rasBand[1], rasGen[1]).gen>>
    /\ rasOut' = Append(rasOut, RasterNext(rasBand[1], rasGen[1]).ret)
    /\ UNCHANGED rasBand
    /\ UNCHANGED nonRasVars

RasNext ==
    \/ rasBand = <<>> /\ \E band \in Bands : RasNew(band)
    \/ RasCallNext

RasSpecInit == PipeIdle /\ GenIdle /\ RegInit /\ CfgInit /\ ExtIdle

RasSpec == RasSpecInit /\ [][RasNext]_vars

(***************************************************************************)
(* Raster site generator properties.                                       *)
(***************************************************************************)
CeilDiv(a, b) == (a + b - 1) \div b

\* The pixels of block (bx, by) that lie in the band, row by row.
RECURSIVE BlockPixels(_, _, _, _)
BlockPixels(band, bx, by, k) ==
    LET w == Min(band.block_x_size, band.x_size - bx * band.block_x_size)
        h == Min(band.block_y_size, band.y_size - by * band.block_y_size)
    IN  IF k >= w * h THEN <<>>
        ELSE <<<<bx * band.block_x_size + (k % w), by * band.block_y_size + (k \div w)>>>>
             \o BlockPixels(band, bx, by, k + 1)

\* The pixels of the band, blocks in row-major block order.
RECURSIVE BandPixels(_, _)
BandPixels(band, b) ==
    LET across == CeilDiv(band.x_size, band.block_x_size)
        down == CeilDiv(band.y_size, band.block_y_size)
    IN  IF b >= across * down THEN <<>>
        ELSE BlockPixels(band, b % across, b \div across, 0) \o BandPixels(band, b + 1)

\* The sites the specification asks for: one for each pixel that does not
\* hold the nodata value, in visiting order.
RECURSIVE ExpectedSites(_, _)
ExpectedSites(band, px) ==
    IF px = <<>> THEN <<>>
    ELSE LET col == Head(px)[1]
             row == Head(px)[2]
             value == PixelValue(band, col, row)
             nodata == IF band.no_data = <<>> THEN 0 ELSE band.no_data[1]
         IN  (IF value = nodata THEN <<>> ELSE <<<<RasSite(value, col, row)>>>>)
             \o ExpectedSites(band, Tail(px))

RasConsumerDone == rasOut # <<>> /\ rasOut[Len(rasOut)] = None

\* C30: the raster site generator visits every pixel of the band exactly
\* once, blocks in row-major block order and pixels linearly within a
\* block, whatever the band size and block size; it yields a site for
\* exactly the pixels whose value is not the nodata value (0 when none is
\* set), the id being the value stored at the (column, row) the coordinates
\* are computed from, and then returns None.
C30_EveryPixelOnce ==
    /\ \A k \in 1..Len(rasOut) :
          rasOut[k] # None =>
             /\ rasOut[k][1].x < rasBand[1].x_size
             /\ rasOut[k][1].y < rasBand[1].y_size
             /\ rasOut[k][1].id = PixelValue(rasBand[1], rasOut[k][1].x, rasOut[k][1].y)
    /\ RasConsumerDone =>
          SubSeq(rasOut, 1, Len(rasOut) - 1) =
             ExpectedSites(rasBand[1], BandPixels(rasBand[1], 0))

(***************************************************************************)
(* GeoDeg (data.rs).  An f64 input is written in millionths of a degree,   *)
(* an f32 as the exact binary fraction it holds: mant / 2^exp.  The        *)
(* operators cover zero and the values from 1/16 up to 2^14.               *)
(***************************************************************************)
RECURSIVE Pow(_, _)
Pow(b, e) == IF e = 0 THEN 1 ELSE b * Pow(b, e - 1)

RECURSIVE BitLen(_)
BitLen(n) == IF n = 0 THEN 0 ELSE 1 + BitLen(n \div 2)

\* Round the quotient q with remainder r of a division by d to the nearest,
\* ties to even (IEEE 754 roundTiesToEven).
RoundTiesEven(q, r, d) ==
    IF 2 * r > d \/ (2 * r = d /\ q % 2 = 1) THEN q + 1 ELSE q

\* GEO_DEG_PRECISION
GeoDegPrecision == 100000

\* (value * GEO_DEG_PRECISION).round(): f64::round rounds half away from
\* zero; the result is a whole number of 1e-5 degrees (and -0.0 for a
\* negative input that rounds to zero, which compares >= 0.0).
RoundToGrid(x) ==
    LET a == IF x < 0 THEN -x ELSE x
        n == (a + 5) \div 10
    IN  IF x < 0 THEN -n ELSE n

\* `as f32` of a whole number n >= 0: exact below 2^24, else the nearest
\* number with a 24-bit mantissa.
F32OfNat(n) ==
    LET step == Pow(2, IF BitLen(n) > 24 THEN BitLen(n) - 24 ELSE 0)
    IN  RoundTiesEven(n \div step, n % step, step) * step

\* <<q, r>> with n * 2^k = q * d + r, from <<q, r>> for k = 0.
RECURSIVE ScaleQuot(_, _, _)
ScaleQuot(qr, d, k) ==
    IF k = 0 THEN qr
    ELSE ScaleQuot(<<2 * qr[1] + (2 * qr[2]) \div d, (2 * qr[2]) % d>>, d, k - 1)

\* The least k >= from with floor(n * 2^k / d) >= 2^23.
RECURSIVE MantExp(_, _, _)
MantExp(n, d, from) ==
    IF ScaleQuot(<<n \div d, n % d>>, d, from)[1] >= Pow(2, 23) THEN from
    ELSE MantExp(n, d, from + 1)

\* The f32 division n / d of a whole number n > 0 by d: the nearest f32 to
\* the exact quotient.
F32Div(n, d) ==
    LET exp == MantExp(n, d, 24 - BitLen(n \div d))
        qr == ScaleQuot(<<n \div d, n % d>>, d, exp)
        m == RoundTiesEven(qr[1], qr[2], d)
    IN  IF m = Pow(2, 24) THEN [mant |-> Pow(2, 23), exp |-> exp - 1]
        ELSE [mant |-> m, exp |-> exp]

\* impl From<f64> for GeoDeg
GeoDegFrom(x) ==
    LET n == RoundToGrid(x)
        a == F32OfNat(IF n < 0 THEN -n ELSE n)
    IN  IF n = 0 THEN [neg |-> FALSE, mant |-> 0, exp |-> 0]
        ELSE [neg |-> n < 0] @@ F32Div(a, GeoDegPrecision)

\* <<digits, r>>: the first `places` decimals of r / 2^exp as a number, and
\* what is left of r.
RECURSIVE FracDigits(_, _, _, _)
FracDigits(r, exp, places, acc) ==
    IF places = 0 THEN <<acc, r>>
    ELSE FracDigits((r * 10) % Pow(2, exp), exp, places - 1,
                    acc * 10 + (r * 10) \div Pow(2, exp))

RECURSIVE ZeroPad(_, _)
ZeroPad(s, n) == IF Len(s) >= n THEN s ELSE ZeroPad(<<"0">> \o s, n)

\* The decimal writing of scaled / 10^places with `places` decimals.
FixedStr(scaled, places, sep) ==
    NatToStr(scaled \div Pow(10, places))
    \o (IF places = 0 THEN <<>>
        ELSE <<sep>> \o ZeroPad(NatToStr(scaled % Pow(10, places)), places))

\* format!("{:.places$}", self.0.abs()): the exact value of the f32 rounded
\* to `places` decimals.
FormatFixed(g, places) ==
    LET den == Pow(2, g.exp)
        fr == FracDigits(g.mant % den, g.exp, places, 0)
        whole == (g.mant \div den) * Pow(10, places) + fr[1]
    IN  FixedStr(RoundTiesEven(whole, fr[2], den), places, ".")

\* str::replace(".", "_")
ReplaceDot(s) == [i \in 1..Len(s) |-> IF s[i] = "." THEN "_" ELSE s[i]]

\* self.0 >= 0.0
GeNonNeg(g) == ~g.neg

\* GeoDeg::ns
GeoNs(g, places) ==
    ReplaceDot(FormatFixed(g, places) \o <<IF GeNonNeg(g) THEN "N" ELSE "S">>)

\* GeoDeg::ew
GeoEw(g, places) ==
    ReplaceDot(FormatFixed(g, places) \o <<IF GeNonNeg(g) THEN "E" ELSE "W">>)

\* The f64 inputs, in millionths of a degree: the values of the tests of
\* data.rs and context/mod.rs, of the doc comments, and values next to them.
GeoBases == {0, 1000000, 1000150, 12345600, 15222000, 15231330, 78910100, 179123450}
GeoOffsets == {-4, 0, 4}
GeoInputs == {s * (b + o) : s \in {-1, 1}, b \in GeoBases, o \in GeoOffsets}
GeoPlaces == 0..MaxPlaces

\* GeoDeg::from(x).ns(places) and GeoDeg::from(x).ew(places)
GeoFormat(x, places) ==
    /\ geoCall = <<>>
    /\ geoCall' = <<[x |-> x, places |-> places]>>
    /\ geoRet' = <<[ns |-> GeoNs(GeoDegFrom(x), places),
                    ew |-> GeoEw(GeoDegFrom(x), places)]>>
    /\ UNCHANGED nonGeoVars

GeoNext == \E x \in GeoInputs, places \in GeoPlaces : GeoFormat(x, places)

GeoSpecInit == PipeIdle /\ GenIdle /\ RegInit /\ CfgInit /\ ExtIdle

GeoSpec == GeoSpecInit /\ [][GeoNext]_vars

(***************************************************************************)
(* GeoDeg properties.                                                      *)
(***************************************************************************)
\* round(|x|, places) times 10^places, for x in millionths of a degree: the
\* whole numbers nearest to it (two of them when |x| lies halfway).
RoundedAbs(x, places) ==
    LET a == IF x < 0 THEN -x ELSE x
        unit == Pow(10, 6 - places)
    IN  IF places >= 6 THEN {a * Pow(10, places - 6)}
        ELSE {q \in {a \div unit, a \div unit + 1} :
                 2 * (IF q * unit > a THEN q * unit - a ELSE a - q * unit) <= unit}

GeoFormatted == geoCall # <<>>

\* C31: for every input x and digit count d, ns(d) ends in N iff x >= 0 and
\* in S otherwise, holds no `.`, and before the letter stands |x| rounded to
\* d places with `_` for the decimal point; ew(d) is the same with E and W.
C31_NsEwFormat ==
    GeoFormatted =>
        LET x == geoCall[1].x
            d == geoCall[1].places
            ns == geoRet[1].ns
            ew == geoRet[1].ew
            wanted == {FixedStr(q, d, "_") : q \in RoundedAbs(x, d)}
        IN  /\ ns[Len(ns)] = (IF x >= 0 THEN "N" ELSE "S")
            /\ ew[Len(ew)] = (IF x >= 0 THEN "E" ELSE "W")
            /\ \A i \in 1..Len(ns) : ns[i] # "."
            /\ \A i \in 1..Len(ew) : ew[i] # "."
            /\ SubSeq(ns, 1, Len(ns) - 1) \in wanted
            /\ SubSeq(ew, 1, Len(ew) - 1) \in wanted

(***************************************************************************)
(* Output paths (Context::dir, TemplateEngine::register / file_name and    *)
(* the path UnbatchedProcessor::process writes).  A path is the sequence   *)
(* of its components, a component a sequence of characters.                *)
(***************************************************************************)
\* PathBuf::push of a relative component (an absolute one replaces the path).
PathPush(path, comp) ==
    IF comp # <<>> /\ comp[1] = "/" THEN <<comp>> ELSE Append(path, comp)

\* Path::file_name: the last component, None for an empty path.
FileName(path) == IF path = <<>> THEN None ELSE <<path[Len(path)]>>

\* The characters of the run names of the pipeline.
NameChars == [r1 |-> <<"r", "1">>, r2 |-> <<"r", "2">>]

\* The Site of a context, with its GeoDeg fields.
ContextSite(ctx) ==
    [id |-> ctx[1], lon |-> siteGeo[1][ctx[1]].lon, lat |-> siteGeo[1][ctx[1]].lat]

\* Mutant of ContextDir: N/S is put on the latitude and E/W on the longitude.
ContextDirLatNs(ctx, base) ==
    PathPush(PathPush(PathPush(base, NameChars[ctx[2]]),
                      GeoEw(ContextSite(ctx).lon, 4)),
             GeoNs(ContextSite(ctx).lat, 4))

\* Context::dir
ContextDir(ctx, base) ==
    PathPush(PathPush(PathPush(base, NameChars[ctx[2]]),
                      GeoNs(ContextSite(ctx).lon, 4)),
             GeoEw(ContextSite(ctx).lat, 4))

\* TemplateEngine.filenames after register was called for every run of
\* `filenames`; TemplateEngine::file_name is the lookup in it.
TemplateFileName(run_name) ==
    IF run_name \in filenames THEN FileName(tplFiles[1][run_name]) ELSE None

\* Mutant of TemplatePath: the site id is part of the path.
TemplatePathWithId(ctx) ==
    PathPush(PathPush(ContextDir(ctx, workdir[1]), NatToStr(ctx[1])),
             TemplateFileName(ctx[2])[1])

\* The path std::fs::write is called with: ctx.dir(&self.workdir) with the
\* file name pushed.
TemplatePath(ctx) ==
    PathPush(ContextDir(ctx, workdir[1]), TemplateFileName(ctx[2])[1])

\* The sites, the template files and the work directory of a run of the
\* program.
GeoA == [lon |-> GeoDegFrom(15222000), lat |-> GeoDegFrom(-15231330)]
GeoNearA == [lon |-> GeoDegFrom(15222010), lat |-> GeoDegFrom(-15231340)]
GeoB == [lon |-> GeoDegFrom(78910100), lat |-> GeoDegFrom(-12345600)]
SiteGeos == {[i \in SiteIds |-> IF i = 0 THEN GeoA ELSE g] : g \in {GeoNearA, GeoB}}
TmpDir == <<<<"t", "m", "p">>>>
TemplateFiles ==
    [r \in RunNames |->
        IF r = "r1" THEN <<<<"t", "p", "l">>, <<"a", ".", "x">>>>
        ELSE <<<<"b", ".", "x">>>>]

\* What the producer sends: two contexts of one run, or two of different runs.
WriteItems == {<<<<0, "r1">>, <<1, "r1">>>>, <<<<0, "r1">>, <<1, "r2">>>>}

\* Nothing was sent, no thread was started.
PipeStart ==
    /\ prodIdx = 0
    /\ txInClosed = FALSE
    /\ chIn = <<>>
    /\ chOut = <<>>
    /\ wpc = [w \in Workers |-> "unspawned"]
    /\ wctx = [w \in Workers |-> None]
    /\ wdirerr = [w \in Workers |-> FALSE]
    /\ conductPc = "idle"
    /\ spawned = 0
    /\ joined = 0
    /\ txOutClosed = FALSE
    /\ sinkPc = "draining"
    /\ received = <<>>

WriteInit ==
    /\ GenIdle /\ RegInit /\ CfgInit
    /\ ValIdle /\ TplIdle /\ IpIdle
    /\ CtxIdle /\ SelIdle /\ VecIdle /\ RasIdle /\ GeoIdle /\ K2Idle
    /\ prodItems \in {SubSeq(items, 1, n) : items \in WriteItems, n \in 0..2}
    /\ bufSize = 1
    /\ workers \in {1, 2}
    /\ filenames = RunNames
    /\ PipeStart
    /\ workdir = <<TmpDir>>
    /\ siteGeo \in {<<g>> : g \in SiteGeos}
    /\ tplFiles = <<TemplateFiles>>

WriteSpec == WriteInit /\ [][PipeNext]_vars

(***************************************************************************)
(* Output path properties.                                                 *)
(***************************************************************************)
\* The path as text: every component after a `/`.
RECURSIVE PathStr(_)
PathStr(path) ==
    IF path = <<>> THEN <<>>
    ELSE PathStr(SubSeq(path, 1, Len(path) - 1)) \o <<"/">> \o path[Len(path)]

Holding == {w \in Workers : wctx[w] # None}

\* /tmp/r1/15_2220N/15_2313W
ExampleDir ==
    <<"/", "t", "m", "p", "/", "r", "1", "/", "1", "5", "_", "2", "2", "2", "0", "N",
      "/", "1", "5", "_", "2", "3", "1", "3", "W">>

\* C32: for every context a worker holds, Context.dir(workdir) is workdir /
\* run.name / site.lon.ns(4) / site.lat.ew(4), the file is written in that
\* directory under the base name of the template file registered for
\* run.name, and lon 15.222, lat -15.23133, run r1 under /tmp give
\* /tmp/r1/15_2220N/15_2313W.
C32_OutputPath ==
    \A w \in Holding :
        LET ctx == wctx[w]
            geo == siteGeo[1][ctx[1]]
            file == tplFiles[1][ctx[2]]
            dir == workdir[1] \o <<NameChars[ctx[2]], GeoNs(geo.lon, 4),
                                   GeoEw(geo.lat, 4)>>
        IN  /\ ContextDir(ctx, workdir[1]) = dir
            /\ TemplatePath(ctx) = dir \o <<file[Len(file)]>>
            /\ (geo = GeoA /\ ctx[2] = "r1") =>
                   PathStr(ContextDir(ctx, workdir[1])) = ExampleDir

C32_Witness ==
    \E w \in Holding :
        /\ wpc[w] = "send"
        /\ siteGeo[1][wctx[w][1]] = GeoA
        /\ wctx[w][2] = "r1"

\* The coordinates of a site as the path shows them.
Shown(ctx) ==
    <<GeoNs(siteGeo[1][ctx[1]].lon, 4), GeoEw(siteGeo[1][ctx[1]].lat, 4)>>

\* C40: the path written for a context depends on the run name and on the
\* coordinates at 4 decimals only, not on site.id: two contexts of one run
\* whose sites show the same coordinates are written to the same path, and
\* two workers can be writing that path at the same time.
C40_PathIgnoresId ==
    \A w1, w2 \in Holding :
        (wctx[w1][2] = wctx[w2][2] /\ Shown(wctx[w1]) = Shown(wctx[w2]))
            => TemplatePath(wctx[w1]) = TemplatePath(wctx[w2])

C40_Witness ==
    \E w1, w2 \in Holding :
        /\ w1 # w2
        /\ wpc[w1] = "write" /\ wpc[w2] = "write"
        /\ wctx[w1][1] # wctx[w2][1]
        /\ siteGeo[1][wctx[w1][1]] # siteGeo[1][wctx[w2][1]]
        /\ TemplatePath(wctx[w1]) = TemplatePath(wctx[w2])

(***************************************************************************)
(* K2HashMap on its own: any sequence of inserts, with the keys and values *)
(* of the test of utils/threehashmap.rs.                                   *)
(***************************************************************************)
K2Keys1 == {"k1", "k2"}
K2Keys2 == {"kA", "kB"}
K2Values == {10, 20}

\* K2HashMap::new
K2New ==
    /\ k2Map = <<>>
    /\ k2Map' = <<<<>>>>
    /\ UNCHANGED k2Log
    /\ UNCHANGED nonK2Vars

\* K2HashMap::insert
K2InsertCall(k1, k2, v) ==
    /\ k2Map # <<>>
    /\ Len(k2Log) < MaxInserts
    /\ k2Map' = <<K2Insert(k2Map[1], k1, k2, v)>>
    /\ k2Log' = Append(k2Log, <<k1, k2, v>>)
    /\ UNCHANGED nonK2Vars

K2Next ==
    \/ K2New
    \/ \E k1 \in K2Keys1, k2 \in K2Keys2, v \in K2Values : K2InsertCall(k1, k2, v)

K2SpecInit == PipeIdle /\ GenIdle /\ RegInit /\ CfgInit /\ ExtIdle

K2Spec == K2SpecInit /\ [][K2Next]_vars

(***************************************************************************)
(* K2HashMap properties.                                                   *)
(***************************************************************************)
\* The inserts made at the pair (k1, k2), as positions of the log.
InsertsAt(k1, k2) == {i \in 1..Len(k2Log) : k2Log[i][1] = k1 /\ k2Log[i][2] = k2}

\* The value of the most recent insert at (k1, k2), None when there is none.
LastInserted(k1, k2) ==
    IF InsertsAt(k1, k2) = {} THEN None
    ELSE <<k2Log[CHOOSE i \in InsertsAt(k1, k2) : \A j \in InsertsAt(k1, k2) : j <= i][3]>>

\* C33: after any sequence of inserts, get(k1, k2) is the value of the most
\* recent insert at (k1, k2) (so an insert at another pair, also one with the
\* same k1, does not change it), contains_key(k1, k2) holds iff get(k1, k2)
\* is Some, and len() is the number of distinct pairs inserted.
C33_K2HashMap ==
    k2Map # <<>> =>
        /\ \A k1 \in K2Keys1, k2 \in K2Keys2 :
              /\ K2Get(k2Map[1], k1, k2) = LastInserted(k1, k2)
              /\ K2ContainsKey(k2Map[1], k1, k2) <=> (K2Get(k2Map[1], k1, k2) # None)
        /\ K2Len(k2Map[1]) = Cardinality({<<e[1], e[2]>> : e \in {k2Log[i] : i \in 1..Len(k2Log)}})

\* The inserts of the test and an overwrite: two pairs share k1, one pair
\* was inserted twice.
C33_Witness ==
    /\ Len(k2Log) = 3
    /\ \E i, j \in 1..3 : i < j /\ k2Log[i][1] = k2Log[j][1] /\ k2Log[i][2] # k2Log[j][2]
    /\ \E i, j \in 1..3 : /\ i < j
                          /\ k2Log[i][1] = k2Log[j][1]
                          /\ k2Log[i][2] = k2Log[j][2]
                          /\ k2Log[i][3] # k2Log[j][3]

(***************************************************************************)
(* The pipeline with more contexts than the channels and the workers can   *)
(* hold at once.                                                           *)
(***************************************************************************)
FlightItems ==
    [i \in 1..MaxFlightItems |-> IF i % 2 = 1 THEN <<0, "r1">> ELSE <<1, "r2">>]

FlightInit ==
    /\ GenIdle /\ RegInit /\ CfgInit /\ ExtIdle
    /\ prodItems = FlightItems
    /\ bufSize = 1
    /\ workers \in {1, 2}
    /\ filenames = RunNames
    /\ PipeStart

FlightSpec == FlightInit /\ [][PipeNext]_vars

(***************************************************************************)
(* Channel capacity properties.                                            *)
(***************************************************************************)
\* The contexts taken from the generator and not yet received by the sink.
NotYetReceived == prodIdx - Len(received)

C35_AlwaysAPipeline ==
    (SelCalled("create_pipeline_from_config") /\ selArgs[1].cpus >= 1) =>
        selRet[1].kind \in {"SYNC", "THREADED"}

(***************************************************************************)
(* ContextGenerator with any runs list, the empty one included.            *)
(***************************************************************************)
GenAnyInit ==
    /\ PipeIdle /\ RegInit /\ CfgInit /\ ExtIdle
    /\ sites \in SeqsUpTo(SiteIds, MaxSites)
    /\ runs \in SeqsUpTo(RunNames, MaxRuns)
    /\ site_sample_size \in SampleSizes
    /\ sitePos = 0
    /\ curr_site = <<>>
    /\ current_site_count = 0
    /\ current_run = 0
    /\ emitted = <<>>
    /\ lastNext = "new"
    /\ noneCount = 0

GenAnySpec == GenAnyInit /\ [][GenNext]_vars

(***************************************************************************)
(* ContextGenerator state properties.                                      *)
(***************************************************************************)
\* What holds in every state: with runs nonempty, current_run is within
\* 0..|runs|, no call has indexed runs out of range, and the count is the
\* number of contexts emitted; with runs empty, no context is ever emitted.
GenStateOk ==
    /\ runs # <<>> =>
          /\ current_run \in 0..Len(runs)
          /\ lastNext # "panic"
          /\ current_site_count = Len(emitted)
    /\ runs = <<>> => emitted = <<>>

\* What holds of every call that got a site from the site generator: the cap
\* was not reached, with runs nonempty every run of every earlier site was
\* emitted, and with runs empty the call indexes runs out of range.
GenPullOk ==
    sitePos' # sitePos =>
        /\ ~SampleReached
        /\ runs # <<>> => Len(emitted) = sitePos * Len(runs)
        /\ runs = <<>> => lastNext' = "panic"

\* C36: with a nonempty runs list, always 0 <= current_run <= |runs|, runs
\* is indexed below |runs| only, current_site_count is the number of
\* contexts emitted, and a site is pulled only when every run of the
\* current site was emitted and the cap is not reached; with an empty runs
\* list, a call that gets a site indexes runs out of range instead of
\* returning None.
C36_GeneratorState == []GenStateOk /\ [][GenPullOk]_vars

C36_Witness ==
    /\ runs = <<>>
    /\ sitePos = 1
    /\ lastNext = "panic"

(***************************************************************************)
(* Namespace ownership.                                                    *)
(***************************************************************************)
\* C37: when register is only called with Namespace handles that
\* claim_namespace returned, every (namespace, id) key of the driver
\* registry has its namespace among the claimed ones, a claim of it that
\* returned Ok, and a register call at that key that returned Ok and stored
\* this resource: nothing is stored by any other way.
C37_StoredUnderClaimed ==
    \A k \in RegIds :
        /\ k[1] \in namespaces
        /\ k[1] \in DOMAIN claimLog
        /\ \E i \in 1..Len(claimLog[k[1]]) : claimLog[k[1]][i].res = "Ok"
        /\ k \in DOMAIN regLog
        /\ \E i \in 1..Len(regLog[k]) :
              /\ regLog[k][i].res = "Ok"
              /\ RegGetForeign(k[1], k[2]) = <<regLog[k][i].resource>>

\* Entries under two namespaces.
C37_Witness ==
    \E k1, k2 \in RegIds : k1[1] # k2[1]

(***************************************************************************)
(* The `sites` object entry by entry (config/sites.rs): the document is    *)
(* the sequence of its <<key, value>> entries as they stand in the text.   *)
(***************************************************************************)
SitesEntryValues ==
    [type |-> {JsonString(Vector), JsonString(Qualified(Std, Raster)), JsonString(<<"V">>)},
     sample_size |-> {JsonNumber(0), JsonNumber(2), JsonNull},
     file |-> {JsonString(<<"a">>), JsonNumber(7)},
     site_id_key |-> {JsonString(<<"a">>), JsonString(<<"b">>)}]
SitesEntries == UNION {{<<k, v>> : v \in SitesEntryValues[k]} : k \in DOMAIN SitesEntryValues}
SitesObjects == SeqsUpTo(SitesEntries, MaxEntries)

\* The locals of visit_map before the loop.
VisitMapStart == [err |-> <<>>, source_type |-> <<>>, sample_size |-> <<>>, args |-> <<>>]

\* Mutant of VisitMapLoop: `sample_size` is kept and also put into args.
RECURSIVE VisitMapLoopKeepsSample(_, _, _)
VisitMapLoopKeepsSample(entries, acc, default_namespace) ==
    IF entries = <<>> THEN acc
    ELSE LET key == Head(entries)[1]
             value == Head(entries)[2]
             pid == ParseIdentifier(value.s, default_namespace)
         IN  IF key = "type"
             THEN IF value.t # "string" THEN [acc EXCEPT !.err = <<"InvalidType">>]
                  ELSE IF ~pid.ok THEN [acc EXCEPT !.err = <<"BadIdentifier">>]
                  ELSE VisitMapLoopKeepsSample(Tail(entries),
                           [acc EXCEPT !.source_type = <<<<pid.namespace, pid.id>>>>],
                           default_namespace)
             ELSE IF key = "sample_size" /\ ~(value.t = "number" /\ value.n >= 0)
             THEN [acc EXCEPT !.err = <<"InvalidType">>]
             ELSE VisitMapLoopKeepsSample(Tail(entries),
                      [acc EXCEPT !.sample_size = IF key = "sample_size" THEN <<value.n>> ELSE @,
                                  !.args = (key :> value) @@ @],
                      default_namespace)

\* The `while let Some(key) = map.next_key()` loop of visit_map: `type` is
\* decoded by the identifier seed, `sample_size` as a usize, any other key
\* is inserted into args with its value; the first error ends the loop.
RECURSIVE VisitMapLoop(_, _, _)
VisitMapLoop(entries, acc, default_namespace) ==
    IF entries = <<>> THEN acc
    ELSE LET key == Head(entries)[1]
             value == Head(entries)[2]
             pid == ParseIdentifier(value.s, default_namespace)
         IN  IF key = "type"
             THEN IF value.t # "string" THEN [acc EXCEPT !.err = <<"InvalidType">>]
                  ELSE IF ~pid.ok THEN [acc EXCEPT !.err = <<"BadIdentifier">>]
                  ELSE VisitMapLoop(Tail(entries),
                           [acc EXCEPT !.source_type = <<<<pid.namespace, pid.id>>>>],
                           default_namespace)
             ELSE IF key = "sample_size"
             THEN IF value.t = "number" /\ value.n >= 0
                  THEN VisitMapLoop(Tail(entries), [acc EXCEPT !.sample_size = <<value.n>>],
                                    default_namespace)
                  ELSE [acc EXCEPT !.err = <<"InvalidType">>]
             ELSE VisitMapLoop(Tail(entries), [acc EXCEPT !.args = (key :> value) @@ @],
                               default_namespace)

\* SiteSourceConfigVisitor::visit_map
VisitMap(entries, default_namespace) ==
    LET r == VisitMapLoop(entries, VisitMapStart, default_namespace)
    IN  IF r.err # <<>> THEN [res |-> r.err[1]]
        ELSE IF r.source_type = <<>> THEN [res |-> "MissingType"]
        ELSE [res |-> "Ok", source_type |-> r.source_type[1],
              sample_size |-> r.sample_size, args |-> r.args]

\* config::init on a document whose `sites` object has these entries.
DecodeEntries(entries) ==
    /\ cfgPhase = "booted"
    /\ cfgDoc' = entries
    /\ decoded' = VisitMap(entries, ret.val[1])
    /\ cfgPhase' = "decoded"
    /\ UNCHANGED sitesRet
    /\ UNCHANGED <<pipeVars, genVars, regVars, extVars>>

ArgsNext ==
    \/ InitItself
    \/ cfgPhase = "booted" /\ \E entries \in SitesObjects : DecodeEntries(entries)
    \/ ConfigSites

ArgsSpec == CfgSpecInit /\ [][ArgsNext]_vars

(***************************************************************************)
(* Driver argument properties.                                             *)
(***************************************************************************)
EntryKeys(entries) == {entries[i][1] : i \in 1..Len(entries)}

\* The value the object gives a key: the one of its last entry with the key.
EntryValue(entries, key) ==
    entries[CHOOSE i \in 1..Len(entries) :
               /\ entries[i][1] = key
               /\ \A j \in (i + 1)..Len(entries) : entries[j][1] # key][2]

\* C38: the args handed to the driver's config decoder hold exactly the keys
\* of the `sites` object other than `type` and `sample_size`, each with its
\* value and nothing else; sample_size is stored apart and is None when the
\* key is absent; a `sites` object without `type` is rejected.
C38_ArgsPayload ==
    cfgPhase \in {"decoded", "resolved"} =>
        /\ decoded.res = "Ok" =>
              /\ DOMAIN decoded.args = EntryKeys(cfgDoc) \ {"type", "sample_size"}
              /\ \A k \in DOMAIN decoded.args : decoded.args[k] = EntryValue(cfgDoc, k)
              /\ decoded.sample_size =
                    IF "sample_size" \in EntryKeys(cfgDoc)
                    THEN <<EntryValue(cfgDoc, "sample_size").n>> ELSE <<>>
        /\ "type" \notin EntryKeys(cfgDoc) => decoded.res # "Ok"

\* A document with `type`, `sample_size` and a driver field, in this order,
\* whose driver was found.
C38_Witness ==
    /\ cfgPhase = "resolved"
    /\ sitesRet.res = "Ok"
    /\ Len(cfgDoc) = 3
    /\ cfgDoc[1][1] = "type"
    /\ cfgDoc[2][1] = "sample_size"
    /\ cfgDoc[3][1] = "file"

(***************************************************************************)
(* Skipped `$` properties (TplSpec).                                       *)
(***************************************************************************)
\* The positions of s from i on that lie inside a `${key}` the scanner
\* matches: placeholders are taken from left to right and do not overlap.
RECURSIVE InPlaceholder(_, _)
InPlaceholder(s, i) ==
    IF i > Len(s) THEN {}
    ELSE IF PlaceholderEnd(s, i) # 0
    THEN (i..PlaceholderEnd(s, i)) \cup InPlaceholder(s, PlaceholderEnd(s, i) + 1)
    ELSE InPlaceholder(s, i + 1)

Dollars(s) == {i \in 1..Len(s) : s[i] = "$"}

\* The `$` of s that do not start a well-formed `${key}`.
NotStarting(s) == {i \in Dollars(s) : PlaceholderEnd(s, i) = 0}

\* The `$` of s outside every placeholder; none of them starts one.
Stray(s) == Dollars(s) \ InPlaceholder(s, 1)

\* s from position i on without the positions in gone.
RECURSIVE Without(_, _, _)
Without(s, gone, i) ==
    IF i > Len(s) THEN <<>>
    ELSE (IF i \in gone THEN <<>> ELSE <<s[i]>>) \o Without(s, gone, i + 1)

\* The key of some placeholder of s opens with `${` again.
DoubledOpening(s) ==
    \E i \in InPlaceholder(s, 1) :
       /\ i + 3 <= Len(s)
       /\ PlaceholderEnd(s, i) # 0
       /\ (i = 1 \/ i - 1 \notin InPlaceholder(s, 1) \/ s[i - 1] = "}")
       /\ s[i + 2] = "$" /\ s[i + 3] = "{"

DecodedAsTemplateString == tplPc # "new" /\ tplValue.as = "TemplateString" /\ tplSrc.t = "string"

C39_WitnessRejected ==
    /\ tplPc = "decoded"
    /\ tplValue.as = "TemplateString"
    /\ tplSrc = JsonString(<<"$", "$">>)
    /\ tplValue.res = "Err"

====
